---------------------------- MODULE Spec2Model ----------------------------
(***************************************************************************)
(* Model of app/index.js: a Socket.IO signaling relay with a               *)
(* per-connection speech-to-text / translation pipeline.                   *)
(*                                                                         *)
(* One action is one event-loop turn of the Node.js process: an inbound    *)
(* socket event (or the settling of an external call) together with every  *)
(* promise continuation that becomes runnable in that turn.                *)
(*                                                                         *)
(* JavaScript values are tagged records [t |-> type, v |-> value]; strings  *)
(* are sequences of one-character strings so that trim, toLowerCase,       *)
(* startsWith and split are computed and not assumed.                      *)
(***************************************************************************)
EXTENDS Integers, Sequences, FiniteSets, TLC

(* ------------------------------ bounds --------------------------------- *)
\* number of connection attempts (sockets) of a behaviour
NConn == 2
\* audioRecording events received by the server in a behaviour
MaxItems == 3
\* last value of the millisecond clock Date.now()
MaxTime == 2

(* ---------------- configuration (process.env overrides) ---------------- *)
\* Number(process.env.MAX_AUDIO_BYTES || 1024 * 1024), configured as 3
MAX_AUDIO_BYTES == 3
\* Number(process.env.RATE_LIMIT_WINDOW_MS || 10000), configured as 2
RATE_LIMIT_WINDOW_MS == 2

Conns == 1..NConn

VARIABLES
  status,              \* socket -> "new" | "refused" | "connected"
  user,                \* socket -> socket.user (a string value, or Undef)
  connectError,        \* socket -> message passed to next(new Error(..)), or "none"
  rooms,               \* set of <<room name, socket>>: socket.join(..)
  sttRateTimestamps,   \* socket -> socket.data.sttRateTimestamps
  pendingSttRequests,  \* socket -> socket.data.pendingSttRequests
  sttQueue,            \* socket -> socket.data.sttQueue (the promise chain)
  received,            \* number of audioRecording events received so far
  now,                 \* Date.now()
  projectId,           \* process.env.GOOGLE_CLOUD_PROJECT_ID is set
  env,                 \* process.env: the two limits the server was started
                       \* with
  call,                \* a direct call of an exported helper, as the unit
                       \* tests make it: its name, argument and return value
  emitted,             \* the events emitted during the last turn, in order
  last                 \* the event handled by the last turn: its name, its
                       \* socket and its payload (for the settling of an
                       \* external call, the answer of the call)

vars == <<status, user, connectError, rooms, sttRateTimestamps,
          pendingSttRequests, sttQueue, received, now, projectId, env,
          call, emitted, last>>

\* Number(process.env.RATE_LIMIT_MAX_REQUESTS || 20)
RATE_LIMIT_MAX_REQUESTS == env.RATE_LIMIT_MAX_REQUESTS
\* Number(process.env.MAX_STT_PENDING_REQUESTS || 8)
MAX_STT_PENDING_REQUESTS == env.MAX_STT_PENDING_REQUESTS

(* --------------------------- JavaScript values ------------------------- *)
Undef == [t |-> "undefined"]
Null == [t |-> "null"]
Str(s) == [t |-> "string", v |-> s]
Num(n) == [t |-> "number", v |-> n]
Obj(f) == [t |-> "object", v |-> f]
Bytes(b) == [t |-> "buffer", v |-> b]

\* data[key] of a JavaScript object: undefined when the key is absent
Get(data, key) ==
  IF data.t = "object" /\ key \in DOMAIN data.v THEN data.v[key] ELSE Undef

\* JavaScript truthiness, !!value
Truthy(value) ==
  CASE value.t = "undefined" -> FALSE
    [] value.t = "null" -> FALSE
    [] value.t = "string" -> Len(value.v) > 0
    [] value.t = "number" -> value.v # 0
    [] OTHER -> TRUE

(* ------------------------------- strings ------------------------------- *)
WhiteSpace == {" ", "\n"}

RECURSIVE TrimStart(_)
TrimStart(s) ==
  IF s # <<>> /\ Head(s) \in WhiteSpace THEN TrimStart(Tail(s)) ELSE s

RECURSIVE TrimEnd(_)
TrimEnd(s) ==
  IF s # <<>> /\ s[Len(s)] \in WhiteSpace
  THEN TrimEnd(SubSeq(s, 1, Len(s) - 1))
  ELSE s

\* String.prototype.trim
Trim(s) == TrimEnd(TrimStart(s))

(* ------------------------------ emission ------------------------------- *)
\* the sockets that joined a room
RoomMembers(room) == {d \in Conns : <<room, d>> \in rooms}

\* An emitted event: its name and payload, the socket whose handler emitted
\* it, the room it was addressed to (Undef for the socket itself), the
\* sockets it is delivered to, and the audio item it answers (0 for none).

\* socket.emit(event, payload): delivered to the socket itself
SocketEmit(c, event, payload) ==
  [event |-> event, payload |-> payload, from |-> c, room |-> Undef,
   to |-> {c}, item |-> 0]

\* an emit to a room that does not leave out the sender
SocketToEmitWithSender(c, room, event, payload) ==
  [event |-> event, payload |-> payload, from |-> c, room |-> Str(room),
   to |-> RoomMembers(room), item |-> 0]

\* socket.to(room).emit(event, payload): every member of the room but the sender
SocketToEmit(c, room, event, payload) ==
  [event |-> event, payload |-> payload, from |-> c, room |-> Str(room),
   to |-> RoomMembers(room) \ {c}, item |-> 0]

\* emitSttError through IO.emit: delivered to every connected socket
emitSttErrorToAll(c, code, message) ==
  [event |-> "sttError",
   payload |-> [code |-> code, message |-> message, timestamp |-> now],
   from |-> c, room |-> Undef,
   to |-> {d \in Conns : status[d] = "connected"}, item |-> 0]

emitSttError(c, code, message) ==
  SocketEmit(c, "sttError",
             [code |-> code, message |-> message, timestamp |-> now])

emitSignalError(c, code, message) ==
  SocketEmit(c, "signalError",
             [code |-> code, message |-> message, timestamp |-> now])

(* ----------------------------- validation ------------------------------ *)
\* isNonEmptyString without the trim
isNonEmptyStringUntrimmed(value) ==
  value.t = "string" /\ Len(value.v) > 0

isNonEmptyString(value) ==
  value.t = "string" /\ Len(Trim(value.v)) > 0

\* returns the trimmed value, or the thrown Error's message
getRequiredString(data, key, errorMessage) ==
  IF data.t # "object" \/ ~isNonEmptyString(Get(data, key))
  THEN [ok |-> FALSE, message |-> errorMessage]
  ELSE [ok |-> TRUE, value |-> Trim(Get(data, key).v)]

(* ---------------------------- identity gate ---------------------------- *)
\* useMiddleware testing the identity without trimming it
useMiddlewareUntrimmed(callerId) ==
  IF callerId.t # "string" \/ Len(callerId.v) = 0
  THEN [error |-> "callerId query parameter is required", user |-> Undef]
  ELSE [error |-> "none", user |-> Str(Trim(callerId.v))]

\* IO.use middleware: the argument of next(), "none" for next()
useMiddleware(callerId) ==
  IF callerId.t # "string" \/ Len(Trim(callerId.v)) = 0
  THEN [error |-> "callerId query parameter is required", user |-> Undef]
  ELSE [error |-> "none", user |-> Str(Trim(callerId.v))]

(* handshake.query.callerId values of a connection attempt *)
CallerIds ==
  {Undef, Num(7), Str(<<" ">>), Str(<<" ", "A", " ">>), Str(<<"B">>)}

NoEvent == [op |-> "none", conn |-> 0, data |-> Undef]

\* A connection attempt, sockets being numbered in order of arrival:
\* IO.use((socket, next) => ...) refuses it or binds socket.user, and for an
\* accepted socket IO.on("connection", (socket) => ...) joins the room named
\* by the identity, creates the session state and registers the handlers
Connect(c, callerId) ==
  /\ status[c] = "new"
  /\ \A d \in Conns : d < c => status[d] # "new"
  /\ LET r == useMiddleware(callerId) IN
       /\ user' = [user EXCEPT ![c] = r.user]
       /\ connectError' = [connectError EXCEPT ![c] = r.error]
       /\ IF r.error # "none"
          THEN /\ status' = [status EXCEPT ![c] = "refused"]
               /\ UNCHANGED <<rooms, sttRateTimestamps, sttQueue,
                              pendingSttRequests>>
          ELSE /\ status' = [status EXCEPT ![c] = "connected"]
               /\ rooms' = rooms \cup {<<r.user.v, c>>}
               /\ sttRateTimestamps' = [sttRateTimestamps EXCEPT ![c] = <<>>]
               /\ sttQueue' = [sttQueue EXCEPT ![c] =
                                 [chain |-> <<>>, rejected |-> FALSE]]
               /\ pendingSttRequests' = [pendingSttRequests EXCEPT ![c] = 0]
  /\ emitted' = <<>>
  /\ last' = [op |-> "connect", conn |-> c, data |-> callerId]
  /\ UNCHANGED <<received, now, projectId, env, call>>

(* --------------------------- call signaling ---------------------------- *)
\* `Unexpected server error in ${eventName}`
UnexpectedMessage(eventName) ==
  CASE eventName = "makeCall" -> "Unexpected server error in makeCall"
    [] eventName = "answerCall" -> "Unexpected server error in answerCall"
    [] eventName = "endCall" -> "Unexpected server error in endCall"
    [] eventName = "IceCandidate" -> "Unexpected server error in IceCandidate"
    [] OTHER -> "Unexpected server error in audioRecording"

\* runSafeHandler(eventName, handler): what the wrapped handler emits; a
\* handler that throws is answered with UNHANDLED_SERVER_ERROR
runSafeHandler(c, eventName, result) ==
  IF result.threw
  THEN result.ems \o <<emitSignalError(c, "UNHANDLED_SERVER_ERROR",
                                       UnexpectedMessage(eventName))>>
  ELSE result.ems

Returned(ems) == [threw |-> FALSE, ems |-> ems]

\* makeCall taking the caller's identity from the payload when it names one
makeCallTrustingPayload(c, data) ==
  LET calleeId == getRequiredString(data, "calleeId", "calleeId is required")
      sdpOffer == getRequiredString(data, "sdpOffer", "sdpOffer is required")
      callerId == IF isNonEmptyString(Get(data, "callerId"))
                  THEN Get(data, "callerId") ELSE user[c]
  IN IF ~calleeId.ok
     THEN Returned(<<emitSignalError(c, "INVALID_MAKE_CALL_PAYLOAD", calleeId.message)>>)
     ELSE IF ~sdpOffer.ok
     THEN Returned(<<emitSignalError(c, "INVALID_MAKE_CALL_PAYLOAD", sdpOffer.message)>>)
     ELSE Returned(<<SocketToEmit(c, calleeId.value, "newCall",
                       [callerId |-> callerId, sdpOffer |-> Str(sdpOffer.value)])>>)

makeCall(c, data) ==
  LET calleeId == getRequiredString(data, "calleeId", "calleeId is required")
      sdpOffer == getRequiredString(data, "sdpOffer", "sdpOffer is required")
  IN IF ~calleeId.ok
     THEN Returned(<<emitSignalError(c, "INVALID_MAKE_CALL_PAYLOAD", calleeId.message)>>)
     ELSE IF ~sdpOffer.ok
     THEN Returned(<<emitSignalError(c, "INVALID_MAKE_CALL_PAYLOAD", sdpOffer.message)>>)
     ELSE Returned(<<SocketToEmit(c, calleeId.value, "newCall",
                       [callerId |-> user[c], sdpOffer |-> Str(sdpOffer.value)])>>)

\* answerCall refusing an answer that does not follow a call-offer
answerCallAfterOffer(c, data) ==
  LET callerId == getRequiredString(data, "callerId", "callerId is required")
      sdpAnswer == getRequiredString(data, "sdpAnswer", "sdpAnswer is required")
  IN IF last.op # "makeCall"
     THEN Returned(<<emitSignalError(c, "INVALID_ANSWER_CALL_PAYLOAD",
                                     "no call to answer")>>)
     ELSE IF ~callerId.ok
     THEN Returned(<<emitSignalError(c, "INVALID_ANSWER_CALL_PAYLOAD", callerId.message)>>)
     ELSE IF ~sdpAnswer.ok
     THEN Returned(<<emitSignalError(c, "INVALID_ANSWER_CALL_PAYLOAD", sdpAnswer.message)>>)
     ELSE Returned(<<SocketToEmit(c, callerId.value, "callAnswered",
                       [callee |-> user[c], sdpAnswer |-> Str(sdpAnswer.value)])>>)

answerCall(c, data) ==
  LET callerId == getRequiredString(data, "callerId", "callerId is required")
      sdpAnswer == getRequiredString(data, "sdpAnswer", "sdpAnswer is required")
  IN IF ~callerId.ok
     THEN Returned(<<emitSignalError(c, "INVALID_ANSWER_CALL_PAYLOAD", callerId.message)>>)
     ELSE IF ~sdpAnswer.ok
     THEN Returned(<<emitSignalError(c, "INVALID_ANSWER_CALL_PAYLOAD", sdpAnswer.message)>>)
     ELSE Returned(<<SocketToEmit(c, callerId.value, "callAnswered",
                       [callee |-> user[c], sdpAnswer |-> Str(sdpAnswer.value)])>>)

\* endCall sending leaveCall to the callee's room instead of the sender
endCallLeaveToRoom(c, data) ==
  LET calleeId == getRequiredString(data, "calleeId", "calleeId is required")
  IN IF ~calleeId.ok
     THEN Returned(<<emitSignalError(c, "INVALID_END_CALL_PAYLOAD", calleeId.message)>>)
     ELSE Returned(<<SocketToEmit(c, calleeId.value, "callEnded", [from |-> user[c]]),
                     SocketToEmit(c, calleeId.value, "leaveCall",
                                  [to |-> Str(calleeId.value)])>>)

endCall(c, data) ==
  LET calleeId == getRequiredString(data, "calleeId", "calleeId is required")
  IN IF ~calleeId.ok
     THEN Returned(<<emitSignalError(c, "INVALID_END_CALL_PAYLOAD", calleeId.message)>>)
     ELSE Returned(<<SocketToEmit(c, calleeId.value, "callEnded", [from |-> user[c]]),
                     SocketEmit(c, "leaveCall", [to |-> Str(calleeId.value)])>>)

IceCandidate(c, data) ==
  LET calleeId == getRequiredString(data, "calleeId", "calleeId is required")
      iceCandidate == Get(data, "iceCandidate")
  IN IF ~calleeId.ok
     THEN Returned(<<emitSignalError(c, "INVALID_ICE_CANDIDATE_PAYLOAD", calleeId.message)>>)
     ELSE IF iceCandidate.t \in {"null", "undefined"}
     THEN Returned(<<emitSignalError(c, "INVALID_ICE_CANDIDATE_PAYLOAD",
                                     "iceCandidate is required")>>)
     ELSE Returned(<<SocketToEmit(c, calleeId.value, "IceCandidate",
                       [sender |-> user[c], iceCandidate |-> iceCandidate])>>)

\* the values the target field of a signaling payload takes: absent, not a
\* string, blank, a bound identity with and without padding, an identity
\* nobody is bound to
TargetValues ==
  {Undef, Num(7), Str(<<" ">>), Str(<<"A">>), Str(<<" ", "B">>), Str(<<"C">>)}

\* the values of the second field: absent, null, empty, padded text
SecondValues == {Undef, Null, Str(<<>>), Str(<<" ", "X", " ">>)}

\* the payloads of a signaling event: no object at all, or an object with
\* the two fields
SignalPayload(key1, key2) ==
  {Undef, Str(<<"A">>)}
    \cup {Obj([k \in {key1, key2} |-> IF k = key1 THEN a ELSE b]) :
            a \in TargetValues, b \in SecondValues}

\* the signaling turn of a connected socket: nothing but emissions
Signal(c, op, data, result) ==
  /\ status[c] = "connected"
  /\ emitted' = runSafeHandler(c, op, result)
  /\ last' = [op |-> op, conn |-> c, data |-> data]
  /\ UNCHANGED <<status, user, connectError, rooms,
                 sttRateTimestamps, pendingSttRequests, sttQueue, received,
                 now, projectId, env, call>>

\* socket.on("makeCall", ...)
MakeCall(c, payloads) ==
  \E data \in payloads :
    Signal(c, "makeCall", data, makeCall(c, data))

\* socket.on("answerCall", ...)
AnswerCall(c, payloads) ==
  \E data \in payloads :
    Signal(c, "answerCall", data, answerCall(c, data))

\* socket.on("endCall", ...)
EndCall(c, payloads) ==
  \E data \in payloads :
    Signal(c, "endCall", data, endCall(c, data))

\* socket.on("IceCandidate", ...)
IceCandidateEvent(c, payloads) ==
  \E data \in payloads :
    Signal(c, "IceCandidate", data, IceCandidate(c, data))

(* ---------------------------- language codes --------------------------- *)
UpperCase ==
  <<"A", "B", "C", "D", "E", "F", "G", "H", "I", "J", "K", "L", "M",
    "N", "O", "P", "Q", "R", "S", "T", "U", "V", "W", "X", "Y", "Z">>

LowerCase ==
  <<"a", "b", "c", "d", "e", "f", "g", "h", "i", "j", "k", "l", "m",
    "n", "o", "p", "q", "r", "s", "t", "u", "v", "w", "x", "y", "z">>

Digits == <<"0", "1", "2", "3", "4", "5", "6", "7", "8", "9">>

Range(f) == {f[i] : i \in DOMAIN f}

IndexOf(ch, alphabet) == CHOOSE i \in DOMAIN alphabet : alphabet[i] = ch

IsLetter(ch) == ch \in Range(UpperCase) \cup Range(LowerCase)

\* String.prototype.toLowerCase / toUpperCase
ToLowerCase(s) ==
  [i \in DOMAIN s |->
     IF s[i] \in Range(UpperCase) THEN LowerCase[IndexOf(s[i], UpperCase)]
     ELSE s[i]]

ToUpperCase(s) ==
  [i \in DOMAIN s |->
     IF s[i] \in Range(LowerCase) THEN UpperCase[IndexOf(s[i], LowerCase)]
     ELSE s[i]]

\* String.prototype.startsWith
StartsWith(s, prefix) ==
  Len(s) >= Len(prefix) /\ SubSeq(s, 1, Len(prefix)) = prefix

\* String.prototype.split(sep) for a one-character separator
RECURSIVE Split(_, _)
Split(s, sep) ==
  IF \A i \in DOMAIN s : s[i] # sep THEN <<s>>
  ELSE LET k == CHOOSE i \in DOMAIN s :
                  s[i] = sep /\ \A j \in 1..(i - 1) : s[j] # sep
       IN <<SubSeq(s, 1, k - 1)>> \o Split(SubSeq(s, k + 1, Len(s)), sep)

\* /^[a-z]{2,3}(?:-[A-Za-z]{2,8})*$/i
MatchesLanguageCode(s) ==
  LET parts == Split(s, "-") IN
    /\ \A i \in DOMAIN parts : \A j \in DOMAIN parts[i] : IsLetter(parts[i][j])
    /\ Len(parts[1]) \in 2..3
    /\ \A i \in 2..Len(parts) : Len(parts[i]) \in 2..8

isValidLanguageCode(languageCode) ==
  languageCode.t = "string" /\ MatchesLanguageCode(Trim(languageCode.v))

\* String(value) for the values a language code can be
StringOf(value) ==
  CASE value.t = "string" -> value.v
    [] value.t = "number" -> <<Digits[(value.v % 10) + 1]>>
    [] OTHER -> <<"[", "o", "b", "j", "e", "c", "t", "]">>

\* normalizeTranslationLanguageCode without trimming and lower-casing
normalizeTranslationLanguageCodeAsGiven(languageCode) ==
  IF ~Truthy(languageCode) THEN <<"e", "n">>
  ELSE LET normalized == StringOf(languageCode) IN
         IF StartsWith(normalized, <<"m", "y">>) THEN <<"m", "y">>
         ELSE IF StartsWith(normalized, <<"e", "n">>) THEN <<"e", "n">>
         ELSE Split(normalized, "-")[1]

\* normalizeTranslationLanguageCode collapsing every other code to English
normalizeTranslationLanguageCodeCollapsing(languageCode) ==
  IF ~Truthy(languageCode) THEN <<"e", "n">>
  ELSE LET normalized == ToLowerCase(Trim(StringOf(languageCode))) IN
         IF StartsWith(normalized, <<"m", "y">>) THEN <<"m", "y">>
         ELSE <<"e", "n">>

normalizeTranslationLanguageCode(languageCode) ==
  IF ~Truthy(languageCode) THEN <<"e", "n">>
  ELSE LET normalized == ToLowerCase(Trim(StringOf(languageCode))) IN
         IF StartsWith(normalized, <<"m", "y">>) THEN <<"m", "y">>
         ELSE IF StartsWith(normalized, <<"e", "n">>) THEN <<"e", "n">>
         ELSE Split(normalized, "-")[1]

\* resolveTargetLanguage falling back to English whatever the source is
resolveTargetLanguageNoToggle(sourceLanguageCode, requestedTargetLanguage) ==
  LET normalizedRequested ==
        normalizeTranslationLanguageCode(requestedTargetLanguage)
  IN IF isValidLanguageCode(requestedTargetLanguage)
        /\ normalizedRequested \in {<<"e", "n">>, <<"m", "y">>}
     THEN normalizedRequested
     ELSE <<"e", "n">>

resolveTargetLanguage(sourceLanguageCode, requestedTargetLanguage) ==
  LET normalizedRequested ==
        normalizeTranslationLanguageCode(requestedTargetLanguage)
      source == normalizeTranslationLanguageCode(sourceLanguageCode)
  IN IF isValidLanguageCode(requestedTargetLanguage)
        /\ normalizedRequested \in {<<"e", "n">>, <<"m", "y">>}
     THEN normalizedRequested
     ELSE IF source = <<"e", "n">> THEN <<"m", "y">> ELSE <<"e", "n">>

(* ----------------------------- audio payload --------------------------- *)
Base64Alphabet ==
  UpperCase \o LowerCase \o Digits \o <<"+", "/">>

\* /^[A-Za-z0-9+/=]+$/
IsBase64Char(ch) == ch \in Range(Base64Alphabet) \cup {"="}

\* Buffer.prototype.toString("base64")
RECURSIVE Base64Encode(_)
Base64Encode(bytes) ==
  IF bytes = <<>> THEN <<>>
  ELSE LET b1 == bytes[1]
           b2 == IF Len(bytes) >= 2 THEN bytes[2] ELSE 0
           b3 == IF Len(bytes) >= 3 THEN bytes[3] ELSE 0
           c1 == Base64Alphabet[(b1 \div 4) + 1]
           c2 == Base64Alphabet[((b1 % 4) * 16 + (b2 \div 16)) + 1]
           c3 == IF Len(bytes) >= 2
                 THEN Base64Alphabet[((b2 % 16) * 4 + (b3 \div 64)) + 1]
                 ELSE "="
           c4 == IF Len(bytes) >= 3 THEN Base64Alphabet[(b3 % 64) + 1] ELSE "="
       IN <<c1, c2, c3, c4>>
            \o (IF Len(bytes) > 3 THEN Base64Encode(SubSeq(bytes, 4, Len(bytes)))
                ELSE <<>>)

\* Buffer.from(text, "base64").length: decoding stops at the first padding
\* character and every four characters give three bytes
Base64DecodedLength(text) ==
  LET k == IF \E i \in DOMAIN text : text[i] = "="
           THEN (CHOOSE i \in DOMAIN text :
                   text[i] = "=" /\ \A j \in 1..(i - 1) : text[j] # "=") - 1
           ELSE Len(text)
  IN (k * 3) \div 4

\* String.prototype.replace(/\s/g, "")
RemoveWhiteSpace(s) == SelectSeq(s, LAMBDA ch : ch \notin WhiteSpace)

DataPrefix == <<"d", "a", "t", "a", ":">>

\* audio.slice(audio.indexOf(",") + 1): the whole text when there is no comma
AfterComma(s) ==
  IF \E i \in DOMAIN s : s[i] = ","
  THEN LET k == CHOOSE i \in DOMAIN s :
                  s[i] = "," /\ \A j \in 1..(i - 1) : s[j] # ","
       IN SubSeq(s, k + 1, Len(s))
  ELSE s

\* normalizeAudioToBase64 without the test of the base64 alphabet
normalizeAudioToBase64Unchecked(audio) ==
  IF audio.t = "string"
  THEN LET withoutPrefix == IF StartsWith(audio.v, DataPrefix)
                            THEN AfterComma(audio.v) ELSE audio.v
           normalized == RemoveWhiteSpace(withoutPrefix)
       IN IF normalized = <<>>
          THEN [ok |-> FALSE, message |-> "Empty audio payload"]
          ELSE [ok |-> TRUE, value |-> normalized]
  ELSE IF audio.t \in {"buffer", "uint8array", "array"}
  THEN [ok |-> TRUE, value |-> Base64Encode(audio.v)]
  ELSE [ok |-> FALSE, message |-> "Unsupported audio payload type"]

\* returns the base64 text, or the thrown Error's message
normalizeAudioToBase64(audio) ==
  IF audio.t = "string"
  THEN LET withoutPrefix == IF StartsWith(audio.v, DataPrefix)
                            THEN AfterComma(audio.v) ELSE audio.v
           normalized == RemoveWhiteSpace(withoutPrefix)
       IN IF normalized = <<>>
          THEN [ok |-> FALSE, message |-> "Empty audio payload"]
          ELSE IF \E i \in DOMAIN normalized : ~IsBase64Char(normalized[i])
          THEN [ok |-> FALSE, message |-> "Audio payload is not valid base64"]
          ELSE [ok |-> TRUE, value |-> normalized]
  ELSE IF audio.t \in {"buffer", "uint8array", "array"}
  THEN [ok |-> TRUE, value |-> Base64Encode(audio.v)]
  ELSE [ok |-> FALSE, message |-> "Unsupported audio payload type"]

ALLOWED_ENCODINGS ==
  {<<"L", "I", "N", "E", "A", "R", "1", "6">>,
   <<"W", "E", "B", "M", "_", "O", "P", "U", "S">>,
   <<"O", "G", "G", "_", "O", "P", "U", "S">>,
   <<"F", "L", "A", "C">>,
   <<"M", "U", "L", "A", "W">>,
   <<"A", "M", "R">>,
   <<"A", "M", "R", "_", "W", "B">>,
   <<"S", "P", "E", "E", "X", "_", "W", "I", "T", "H", "_", "H", "E", "A",
     "D", "E", "R", "_", "B", "Y", "T", "E">>}

RECURSIVE ParseDigits(_)
ParseDigits(s) ==
  IF s = <<>> THEN 0
  ELSE ParseDigits(SubSeq(s, 1, Len(s) - 1)) * 10
         + (IndexOf(s[Len(s)], Digits) - 1)

\* Number(value): [nan |-> TRUE] stands for NaN
ToNumber(value) ==
  CASE value.t = "number" -> [nan |-> FALSE, n |-> value.v]
    [] value.t = "string" ->
         LET text == Trim(value.v) IN
           IF \A i \in DOMAIN text : text[i] \in Range(Digits)
           THEN [nan |-> FALSE, n |-> ParseDigits(text)]
           ELSE [nan |-> TRUE, n |-> 0]
    [] value.t = "null" -> [nan |-> FALSE, n |-> 0]
    [] OTHER -> [nan |-> TRUE, n |-> 0]

DefaultSampleRate == 16000
MinSampleRate == 8000
MaxSampleRate == 48000

Thrown(message) == [ok |-> FALSE, message |-> message]

\* parseAudioPayload handing the encoding on as it was sent
parseAudioPayloadRawEncoding(data) ==
  LET to == Get(data, "to")
      language == Get(data, "language")
      sourceLanguageCode ==
        IF isValidLanguageCode(language) THEN Trim(language.v)
        ELSE <<"e", "n", "-", "U", "S">>
      targetLanguageCode ==
        resolveTargetLanguage(Str(sourceLanguageCode),
                              Get(data, "targetLanguage"))
      normalizedEncoding ==
        IF Get(data, "encoding").t = "string"
        THEN ToUpperCase(Trim(Get(data, "encoding").v))
        ELSE <<>>
      encoding == normalizedEncoding
      sampleRateHertz ==
        IF Truthy(Get(data, "sampleRateHertz"))
        THEN ToNumber(Get(data, "sampleRateHertz"))
        ELSE [nan |-> FALSE, n |-> DefaultSampleRate]
      audio == normalizeAudioToBase64(Get(data, "audio"))
      audioSizeInBytes == Base64DecodedLength(audio.value)
      sequenceId == Get(data, "sequenceId")
  IN IF data.t # "object" THEN Thrown("Invalid payload")
     ELSE IF to.t # "string" \/ Len(Trim(to.v)) = 0
     THEN Thrown("Missing recipient id")
     ELSE IF sampleRateHertz.nan \/ sampleRateHertz.n < MinSampleRate
             \/ sampleRateHertz.n > MaxSampleRate
     THEN Thrown("Invalid sample rate")
     ELSE IF ~audio.ok THEN Thrown(audio.message)
     ELSE IF audioSizeInBytes = 0 \/ audioSizeInBytes > MAX_AUDIO_BYTES
     THEN Thrown("Audio payload size is invalid")
     ELSE [ok |-> TRUE,
           value |-> [audioBase64 |-> audio.value,
                      sourceLanguageCode |-> sourceLanguageCode,
                      targetLanguageCode |-> targetLanguageCode,
                      recipientId |-> Trim(to.v),
                      sampleRateHertz |-> sampleRateHertz.n,
                      encoding |-> encoding,
                      sequenceId |-> IF sequenceId.t \in {"undefined", "null"}
                                     THEN Null ELSE sequenceId]]

\* returns the Audio Chunk Request, or the thrown Error's message
parseAudioPayload(data) ==
  LET to == Get(data, "to")
      language == Get(data, "language")
      sourceLanguageCode ==
        IF isValidLanguageCode(language) THEN Trim(language.v)
        ELSE <<"e", "n", "-", "U", "S">>
      targetLanguageCode ==
        resolveTargetLanguage(Str(sourceLanguageCode),
                              Get(data, "targetLanguage"))
      normalizedEncoding ==
        IF Get(data, "encoding").t = "string"
        THEN ToUpperCase(Trim(Get(data, "encoding").v))
        ELSE <<>>
      encoding ==
        IF normalizedEncoding \in ALLOWED_ENCODINGS THEN normalizedEncoding
        ELSE <<"L", "I", "N", "E", "A", "R", "1", "6">>
      sampleRateHertz ==
        IF Truthy(Get(data, "sampleRateHertz"))
        THEN ToNumber(Get(data, "sampleRateHertz"))
        ELSE [nan |-> FALSE, n |-> DefaultSampleRate]
      audio == normalizeAudioToBase64(Get(data, "audio"))
      audioSizeInBytes == Base64DecodedLength(audio.value)
      sequenceId == Get(data, "sequenceId")
  IN IF data.t # "object" THEN Thrown("Invalid payload")
     ELSE IF to.t # "string" \/ Len(Trim(to.v)) = 0
     THEN Thrown("Missing recipient id")
     ELSE IF sampleRateHertz.nan \/ sampleRateHertz.n < MinSampleRate
             \/ sampleRateHertz.n > MaxSampleRate
     THEN Thrown("Invalid sample rate")
     ELSE IF ~audio.ok THEN Thrown(audio.message)
     ELSE IF audioSizeInBytes = 0 \/ audioSizeInBytes > MAX_AUDIO_BYTES
     THEN Thrown("Audio payload size is invalid")
     ELSE [ok |-> TRUE,
           value |-> [audioBase64 |-> audio.value,
                      sourceLanguageCode |-> sourceLanguageCode,
                      targetLanguageCode |-> targetLanguageCode,
                      recipientId |-> Trim(to.v),
                      sampleRateHertz |-> sampleRateHertz.n,
                      encoding |-> encoding,
                      sequenceId |-> IF sequenceId.t \in {"undefined", "null"}
                                     THEN Null ELSE sequenceId]]

(* ------------------------------ rate limit ----------------------------- *)
\* Recent with an entry exactly one window old still counted
RecentInclusive(timestamps, clock) ==
  SelectSeq(timestamps, LAMBDA timestamp : clock - timestamp <= RATE_LIMIT_WINDOW_MS)

\* the timestamps within the trailing window
Recent(timestamps, clock) ==
  SelectSeq(timestamps, LAMBDA timestamp : clock - timestamp < RATE_LIMIT_WINDOW_MS)

\* isRateLimited answering only above the ceiling
isRateLimitedAbove(timestamps, clock) ==
  LET recentTimestamps == Recent(timestamps, clock) IN
    IF Len(recentTimestamps) > RATE_LIMIT_MAX_REQUESTS
    THEN [limited |-> TRUE, timestamps |-> recentTimestamps]
    ELSE [limited |-> FALSE, timestamps |-> Append(recentTimestamps, clock)]

\* returns the answer and the value left in socket.data.sttRateTimestamps
isRateLimited(timestamps, clock) ==
  LET recentTimestamps == Recent(timestamps, clock) IN
    IF Len(recentTimestamps) >= RATE_LIMIT_MAX_REQUESTS
    THEN [limited |-> TRUE, timestamps |-> recentTimestamps]
    ELSE [limited |-> FALSE, timestamps |-> Append(recentTimestamps, clock)]

(* ---------------------------- audio pipeline --------------------------- *)
Max(a, b) == IF a >= b THEN a ELSE b

\* the closure of one unit of work: the item's number (items are numbered in
\* order of arrival at the server), the
\* event payload, where the async callback stands ("queued": not started,
\* "stt": awaiting client.recognize, "translate": awaiting translateText),
\* and its locals parsedPayload and transcription
NewUnit(id, data) ==
  [id |-> id, data |-> data, phase |-> "queued", parsed |-> Undef,
   transcription |-> <<>>]

\* the session state of socket c as one record, with the events emitted so
\* far in the turn
Session(c) ==
  [timestamps |-> sttRateTimestamps[c],
   pending |-> pendingSttRequests[c],
   chain |-> sttQueue[c].chain,
   rejected |-> sttQueue[c].rejected,
   received |-> received,
   ems |-> <<>>]

Tagged(ems, id) == [k \in DOMAIN ems |-> [ems[k] EXCEPT !.item = id]]

\* Finish without the .finally callback
FinishKeepSlot(W, ems) ==
  [W EXCEPT !.chain = Tail(@),
            !.ems = @ \o Tagged(ems, Head(W.chain).id)]

\* the unit of work at the head of the chain settles, emitting ems, and its
\* .finally callback releases the slot
Finish(W, ems) ==
  [W EXCEPT !.chain = Tail(@),
            !.pending = Max(0, @ - 1),
            !.ems = @ \o Tagged(ems, Head(W.chain).id)]

\* the unit of work at the head of the chain throws: the chain is left
\* rejected
Throw(W) == [Finish(W, <<>>) EXCEPT !.rejected = TRUE]

\* the running unit stops at an await
Await(W, phase, parsedPayload, transcription) ==
  [W EXCEPT !.chain[1].phase = phase,
            !.chain[1].parsed = parsedPayload,
            !.chain[1].transcription = transcription]

\* StartUnit whose rate-limited return skips the .finally callback
StartUnitLeak(c, W) ==
  LET rate == isRateLimited(W.timestamps, now)
      W1 == [W EXCEPT !.timestamps = rate.timestamps]
      parsedPayload == parseAudioPayload(Head(W.chain).data)
  IN IF rate.limited
     THEN FinishKeepSlot(W1, <<emitSttError(c, "STT_RATE_LIMITED",
                                    "Too many audio requests in a short time")>>)
     ELSE IF ~parsedPayload.ok
     THEN Finish(W1, <<emitSttError(c, "STT_INVALID_PAYLOAD",
                                    parsedPayload.message)>>)
     ELSE Await(W1, "stt", parsedPayload.value, <<>>)

\* StartUnit validating the payload before the rate-limit check
StartUnitValidateFirst(c, W) ==
  LET rate == isRateLimited(W.timestamps, now)
      W1 == [W EXCEPT !.timestamps = rate.timestamps]
      parsedPayload == parseAudioPayload(Head(W.chain).data)
  IN IF ~parsedPayload.ok
     THEN Finish(W, <<emitSttError(c, "STT_INVALID_PAYLOAD",
                                   parsedPayload.message)>>)
     ELSE IF rate.limited
     THEN Finish(W1, <<emitSttError(c, "STT_RATE_LIMITED",
                                    "Too many audio requests in a short time")>>)
     ELSE Await(W1, "stt", parsedPayload.value, <<>>)

\* StartUnit whose rate-limited branch does not return
StartUnitNoReturn(c, W) ==
  LET rate == isRateLimited(W.timestamps, now)
      W1 == [W EXCEPT !.timestamps = rate.timestamps]
      parsedPayload == parseAudioPayload(Head(W.chain).data)
      limited == emitSttError(c, "STT_RATE_LIMITED",
                              "Too many audio requests in a short time")
      W2 == IF rate.limited
            THEN [W1 EXCEPT !.ems = @ \o Tagged(<<limited>>, Head(W.chain).id)]
            ELSE W1
  IN IF ~parsedPayload.ok
     THEN Finish(W2, <<emitSttError(c, "STT_INVALID_PAYLOAD",
                                    parsedPayload.message)>>)
     ELSE Await(W2, "stt", parsedPayload.value, <<>>)

\* the body of the .then callback up to "await client.recognize(..)"
StartUnit(c, W) ==
  LET rate == isRateLimited(W.timestamps, now)
      W1 == [W EXCEPT !.timestamps = rate.timestamps]
      parsedPayload == parseAudioPayload(Head(W.chain).data)
  IN IF rate.limited
     THEN Finish(W1, <<emitSttError(c, "STT_RATE_LIMITED",
                                    "Too many audio requests in a short time")>>)
     ELSE IF ~parsedPayload.ok
     THEN Finish(W1, <<emitSttError(c, "STT_INVALID_PAYLOAD",
                                    parsedPayload.message)>>)
     ELSE Await(W1, "stt", parsedPayload.value, <<>>)

\* the promise chain runs as far as it can: queued units start in order
\* until one is waiting for an external call; on a rejected chain the .then
\* callbacks are skipped and only the .finally callbacks run
RECURSIVE Drain(_, _)
Drain(c, W) ==
  IF W.chain = <<>> THEN W
  ELSE IF Head(W.chain).phase # "queued" THEN W
  ELSE IF W.rejected THEN Drain(c, Finish(W, <<>>))
  ELSE Drain(c, StartUnit(c, W))

\* audioRecording starting the unit on its own promise instead of chaining it
audioRecordingUnchained(c, W, data) ==
  LET id == W.received + 1
      alone == StartUnit(c, [W EXCEPT !.received = id,
                                      !.pending = @ + 1,
                                      !.chain = <<NewUnit(id, data)>>])
  IN IF W.pending >= MAX_STT_PENDING_REQUESTS
     THEN [W EXCEPT !.received = id,
                    !.ems = @ \o Tagged(<<emitSttError(c, "STT_BACKPRESSURE",
                                           "Too many queued audio chunks")>>, id)]
     ELSE [alone EXCEPT !.chain = W.chain \o @]

\* audioRecording refusing only above the ceiling
audioRecordingAbove(c, W, data) ==
  LET id == W.received + 1 IN
    IF W.pending > MAX_STT_PENDING_REQUESTS
    THEN [W EXCEPT !.received = id,
                   !.ems = @ \o Tagged(<<emitSttError(c, "STT_BACKPRESSURE",
                                          "Too many queued audio chunks")>>, id)]
    ELSE Drain(c, [W EXCEPT !.received = id,
                            !.pending = @ + 1,
                            !.chain = Append(@, NewUnit(id, data))])

\* audioRecording counting the item before the backpressure check
audioRecordingCountFirst(c, W, data) ==
  LET id == W.received + 1 IN
    IF W.pending >= MAX_STT_PENDING_REQUESTS
    THEN [W EXCEPT !.received = id,
                   !.pending = @ + 1,
                   !.ems = @ \o Tagged(<<emitSttError(c, "STT_BACKPRESSURE",
                                          "Too many queued audio chunks")>>, id)]
    ELSE Drain(c, [W EXCEPT !.received = id,
                            !.pending = @ + 1,
                            !.chain = Append(@, NewUnit(id, data))])

\* audioRecording on one work queue for the whole server: the item waits
\* while a call of another socket is in flight
audioRecordingShared(c, W, data) ==
  LET id == W.received + 1
      queued == [W EXCEPT !.received = id,
                          !.pending = @ + 1,
                          !.chain = Append(@, NewUnit(id, data))]
  IN IF W.pending >= MAX_STT_PENDING_REQUESTS
     THEN [W EXCEPT !.received = id,
                    !.ems = @ \o Tagged(<<emitSttError(c, "STT_BACKPRESSURE",
                                           "Too many queued audio chunks")>>, id)]
     ELSE IF \E d \in Conns \ {c} : sttQueue[d].chain # <<>>
     THEN queued
     ELSE Drain(c, queued)

\* audioRecording taking the rate-limit decision when the item is submitted
audioRecordingLimitAtSubmit(c, W, data) ==
  LET id == W.received + 1 IN
    IF W.pending >= MAX_STT_PENDING_REQUESTS
    THEN [W EXCEPT !.received = id,
                   !.ems = @ \o Tagged(<<emitSttError(c, "STT_BACKPRESSURE",
                                          "Too many queued audio chunks")>>, id)]
    ELSE IF isRateLimited(W.timestamps, now).limited
    THEN [W EXCEPT !.received = id,
                   !.ems = @ \o Tagged(<<emitSttError(c, "STT_RATE_LIMITED",
                                          "Too many audio requests in a short time")>>,
                                       id)]
    ELSE Drain(c, [W EXCEPT !.received = id,
                            !.pending = @ + 1,
                            !.chain = Append(@, NewUnit(id, data))])

\* the handler of an audioRecording event on session W
audioRecording(c, W, data) ==
  LET id == W.received + 1 IN
    IF W.pending >= MAX_STT_PENDING_REQUESTS
    THEN [W EXCEPT !.received = id,
                   !.ems = @ \o Tagged(<<emitSttError(c, "STT_BACKPRESSURE",
                                          "Too many queued audio chunks")>>, id)]
    ELSE Drain(c, [W EXCEPT !.received = id,
                            !.pending = @ + 1,
                            !.chain = Append(@, NewUnit(id, data))])

\* Array.prototype.join(sep) of a list of strings
RECURSIVE Join(_, _)
Join(strings, sep) ==
  IF strings = <<>> THEN <<>>
  ELSE IF Len(strings) = 1 THEN strings[1]
  ELSE strings[1] \o sep \o Join(Tail(strings), sep)

\* Transcription without the trim
TranscriptionUntrimmed(results) ==
  Join([k \in DOMAIN results |->
          IF Truthy(results[k]) THEN results[k].v ELSE <<>>], <<" ">>)

\* results.map((result) => result.alternatives?.[0]?.transcript || "")
\*        .join(" ").trim()
Transcription(results) ==
  Trim(Join([k \in DOMAIN results |->
               IF Truthy(results[k]) THEN results[k].v ELSE <<>>], <<" ">>))

\* the catch (processingError) block: reading .message of null or undefined
\* throws inside the block
Catch(c, W, processingError) ==
  IF processingError.t \in {"null", "undefined"}
  THEN Throw(W)
  ELSE Finish(W, <<emitSttError(c, "STT_PROCESSING_FAILED",
                                "Unable to process this audio chunk")>>)

\* EmitResult through socket.emit: the result goes back to the sender
EmitResultToSender(c, W, transcription, translatedText) ==
  LET parsedPayload == Head(W.chain).parsed IN
    Finish(W, <<SocketEmit(c, "sttResult",
                  [text |-> Str(transcription),
                   translated |-> Str(translatedText),
                   from |-> user[c],
                   to |-> Str(parsedPayload.recipientId),
                   sequenceId |-> parsedPayload.sequenceId])>>)

\* socket.to(recipientId).emit("sttResult", resultPayload)
EmitResult(c, W, transcription, translatedText) ==
  LET parsedPayload == Head(W.chain).parsed IN
    Finish(W, <<SocketToEmit(c, parsedPayload.recipientId, "sttResult",
                  [text |-> Str(transcription),
                   translated |-> Str(translatedText),
                   from |-> user[c],
                   to |-> Str(parsedPayload.recipientId),
                   sequenceId |-> parsedPayload.sequenceId])>>)

\* AfterRecognize comparing the source language as sent, not its coarse form
AfterRecognizeRawSource(c, W, response) ==
  LET parsedPayload == Head(W.chain).parsed
      transcription == Transcription(response.v)
  IN IF response.t = "reject" THEN Catch(c, W, response.v)
     ELSE IF transcription = <<>> THEN Finish(W, <<>>)
     ELSE IF ~projectId THEN EmitResult(c, W, transcription, transcription)
     ELSE IF parsedPayload.sourceLanguageCode # parsedPayload.targetLanguageCode
     THEN Await(W, "translate", parsedPayload, transcription)
     ELSE EmitResult(c, W, transcription, transcription)

\* the .then callback from the answer of client.recognize(..) to the next
\* await or to its end
AfterRecognize(c, W, response) ==
  LET parsedPayload == Head(W.chain).parsed
      transcription == Transcription(response.v)
      sourceLanguageCode ==
        normalizeTranslationLanguageCode(Str(parsedPayload.sourceLanguageCode))
  IN IF response.t = "reject" THEN Catch(c, W, response.v)
     ELSE IF transcription = <<>> THEN Finish(W, <<>>)
     ELSE IF ~projectId THEN EmitResult(c, W, transcription, transcription)
     ELSE IF sourceLanguageCode # parsedPayload.targetLanguageCode
     THEN Await(W, "translate", parsedPayload, transcription)
     ELSE EmitResult(c, W, transcription, transcription)

\* the .then callback from the answer of translationClient.translateText(..)
AfterTranslate(c, W, response) ==
  LET transcription == Head(W.chain).transcription
      translatedText ==
        IF response.v # <<>> /\ Truthy(response.v[1]) THEN response.v[1].v
        ELSE transcription
  IN IF response.t = "reject" THEN Catch(c, W, response.v)
     ELSE EmitResult(c, W, transcription, translatedText)

\* Commit with one rate-limit record for the whole server
CommitSharedTimestamps(c, W) ==
  /\ sttRateTimestamps' = [d \in Conns |-> W.timestamps]
  /\ pendingSttRequests' = [pendingSttRequests EXCEPT ![c] = W.pending]
  /\ sttQueue' = [sttQueue EXCEPT ![c] = [chain |-> W.chain,
                                          rejected |-> W.rejected]]
  /\ received' = W.received
  /\ emitted' = W.ems

\* the turn's result becomes the state of socket c
Commit(c, W) ==
  /\ sttRateTimestamps' = [sttRateTimestamps EXCEPT ![c] = W.timestamps]
  /\ pendingSttRequests' = [pendingSttRequests EXCEPT ![c] = W.pending]
  /\ sttQueue' = [sttQueue EXCEPT ![c] = [chain |-> W.chain,
                                          rejected |-> W.rejected]]
  /\ received' = W.received
  /\ emitted' = W.ems

(* --------------------------- inputs of a turn -------------------------- *)
ErrorObject == Obj([message |-> Str(<<"E">>)])

Resolved(v) == [t |-> "resolve", v |-> v]
Rejected(v) == [t |-> "reject", v |-> v]

\* answers of client.recognize: a failure with an Error, a failure with no
\* value, no result, results without text, results with text
SttResponses ==
  {Rejected(ErrorObject), Rejected(Null), Resolved(<<>>),
   Resolved(<<Undef, Str(<<" ">>)>>),
   Resolved(<<Str(<<"h">>), Str(<<"i">>)>>)}

\* answers of translationClient.translateText
TranslateResponses ==
  {Rejected(ErrorObject), Rejected(Null), Resolved(<<>>),
   Resolved(<<Str(<<>>)>>), Resolved(<<Str(<<"M">>)>>)}

\* audioRecording payloads: a chunk for B in English, a chunk for A in
\* English with target English sent as a Buffer, and text that is not base64
AudioPayloads ==
  {Obj([to |-> Str(<<"B">>), audio |-> Str(<<"A", "A", "A", "A">>),
        language |-> Str(<<"e", "n", "-", "U", "S">>),
        from |-> Str(<<"Z">>)]),
   Obj([to |-> Str(<<" ", "A">>), audio |-> Bytes(<<1>>),
        language |-> Str(<<"e", "n">>),
        targetLanguage |-> Str(<<"e", "n">>), sequenceId |-> Num(5)]),
   Obj([to |-> Str(<<"B">>), audio |-> Str(<<"!">>)])}

\* a well-formed chunk: three bytes of audio for the identity B
Chunk(fields) ==
  Obj([k \in {"to", "audio"} \cup DOMAIN fields |->
         IF k \in DOMAIN fields THEN fields[k]
         ELSE IF k = "to" THEN Str(<<"B">>)
         ELSE Str(<<"A", "A", "A", "A">>)])

\* the shapes of an audioRecording payload: no object; recipient absent or
\* blank; audio absent, of no supported type, blank, not base64, of zero
\* bytes, of more than MAX_AUDIO_BYTES bytes; sample rates below, at, within
\* and above the limits, zero and no number; encodings of the allow-list in
\* lower case, unknown and not a string;
\* audio as a data URL and as bytes; recipients with padding and without a
\* socket; sequence ids
PayloadShapes ==
  {Undef, Null, Str(<<"A">>),
   Obj([audio |-> Str(<<"A", "A", "A", "A">>)]),
   Chunk([to |-> Str(<<" ">>)]),
   Chunk([to |-> Num(7)]),
   Obj([to |-> Str(<<"B">>)]),
   Chunk([audio |-> Null]),
   Chunk([audio |-> Num(7)]),
   Chunk([audio |-> Str(<<" ", "\n">>)]),
   Chunk([audio |-> Str(<<"A", "!", "A", "A">>)]),
   Chunk([audio |-> Str(<<"A">>)]),
   Chunk([audio |-> Bytes(<<>>)]),
   Chunk([audio |-> Bytes(<<1, 2, 3, 4>>)]),
   Chunk([audio |-> Str(<<"A", "A", "A", "A", "A", "A", "A", "A">>)]),
   Chunk([sampleRateHertz |-> Num(7)]),
   Chunk([sampleRateHertz |-> Num(0)]),
   Chunk([sampleRateHertz |-> Num(MinSampleRate)]),
   Chunk([sampleRateHertz |-> Num(MaxSampleRate)]),
   Chunk([sampleRateHertz |-> Num(MaxSampleRate + 1)]),
   Chunk([sampleRateHertz |-> Str(<<"4", "4", "1", "0", "0">>)]),
   Chunk([sampleRateHertz |-> Str(<<"x">>)]),
   Chunk([encoding |-> Str(<<" ", "f", "l", "a", "c">>)]),
   Chunk([encoding |-> Str(<<"M", "P", "3">>)]),
   Chunk([encoding |-> Num(7)]),
   Chunk([audio |-> Str(<<"d", "a", "t", "a", ":", ",", "A", "A", " ", "A", "A">>)]),
   Chunk([audio |-> Bytes(<<255, 1, 2>>), to |-> Str(<<" ", "A", " ">>),
          sequenceId |-> Num(0)]),
   Chunk([to |-> Str(<<"C">>), sequenceId |-> Str(<<"s">>)]),
   Chunk([sequenceId |-> Null])}

\* the values of the language and targetLanguage fields: absent, not a
\* string, no language code, English, Burmese and a third language
SourceLanguages ==
  {Undef, Str(<<"e">>), Str(<<"e", "n", "-", "U", "S">>),
   Str(<<" ", "M", "Y", "-", "m", "m">>), Str(<<"j", "a">>)}

TargetLanguages ==
  {Undef, Num(7), Str(<<"e", "n", "g", "l", "i", "s", "h">>),
   Str(<<"E", "N">>), Str(<<"m", "y", "-", "M", "M", " ">>),
   Str(<<"f", "r">>)}

LanguagePayloads ==
  {Chunk([language |-> source, targetLanguage |-> target]) :
     source \in SourceLanguages, target \in TargetLanguages}

\* the fields that name the originator in the relayed events
OriginatorFields == {"callerId", "callee", "from", "sender"}

\* signaling payloads of the whole server: a complete one for the identity
\* B, which also claims the identity Z as its originator, and for makeCall
\* also one that lacks its second field
ValidCall(key1, key2) ==
  Obj([k \in {key1, key2} \cup OriginatorFields |->
         IF k = key1 THEN Str(<<"B", " ">>)
         ELSE IF k = key2 THEN Str(<<"X">>)
         ELSE Str(<<"Z">>)])

IncompleteCall(key1) == Obj([k \in {key1} |-> Str(<<"B">>)])

(* -------------------------------- turns -------------------------------- *)
\* socket.on("audioRecording", ...)
AudioRecording(c, payloads) ==
  /\ status[c] = "connected"
  /\ received < MaxItems
  /\ \E data \in payloads :
       /\ Commit(c, audioRecording(c, Session(c), data))
       /\ last' = [op |-> "audioRecording", conn |-> c, data |-> data]
  /\ UNCHANGED <<status, user, connectError, rooms, now, projectId, env, call>>

HeadPhase(c) ==
  IF sttQueue[c].chain = <<>> THEN "idle" ELSE Head(sttQueue[c].chain).phase

\* client.recognize(..) of the running unit of socket c settles
RecognizeSettled(c) ==
  /\ HeadPhase(c) = "stt"
  /\ \E response \in SttResponses :
       /\ Commit(c, Drain(c, AfterRecognize(c, Session(c), response)))
       /\ last' = [op |-> "recognizeSettled", conn |-> c, data |-> response]
  /\ UNCHANGED <<status, user, connectError, rooms, now, projectId, env, call>>

\* translationClient.translateText(..) of the running unit of socket c settles
TranslateSettled(c) ==
  /\ HeadPhase(c) = "translate"
  /\ \E response \in TranslateResponses :
       /\ Commit(c, Drain(c, AfterTranslate(c, Session(c), response)))
       /\ last' = [op |-> "translateSettled", conn |-> c, data |-> response]
  /\ UNCHANGED <<status, user, connectError, rooms, now, projectId, env, call>>

\* Tick with a timeout that frees one slot of every socket
TickWithTimeout ==
  /\ now < MaxTime
  /\ now' = now + 1
  /\ emitted' = <<>>
  /\ last' = [op |-> "tick", conn |-> 0, data |-> Undef]
  /\ pendingSttRequests' =
       [c \in Conns |-> Max(0, pendingSttRequests[c] - 1)]
  /\ UNCHANGED <<status, user, connectError, rooms,
                 sttRateTimestamps, sttQueue, received, projectId, env, call>>

\* a millisecond passes
Tick ==
  /\ now < MaxTime
  /\ now' = now + 1
  /\ emitted' = <<>>
  /\ last' = [op |-> "tick", conn |-> 0, data |-> Undef]
  /\ UNCHANGED <<status, user, connectError, rooms,
                 sttRateTimestamps, pendingSttRequests, sttQueue, received,
                 projectId, env, call>>

\* the server listening, started with the limits of environment
Listening(environment) ==
  /\ env = environment
  /\ status = [c \in Conns |-> "new"]
  /\ user = [c \in Conns |-> Undef]
  /\ connectError = [c \in Conns |-> "none"]
  /\ rooms = {}
  /\ sttRateTimestamps = [c \in Conns |-> <<>>]
  /\ pendingSttRequests = [c \in Conns |-> 0]
  /\ sttQueue = [c \in Conns |-> [chain |-> <<>>, rejected |-> FALSE]]
  /\ received = 0
  /\ now = 0
  /\ projectId \in BOOLEAN
  /\ emitted = <<>>
  /\ last = NoEvent

\* no helper is called directly
NoCall == [fn |-> "none", argument |-> Undef, returned |-> FALSE, value |-> Undef]

\* RATE_LIMIT_MAX_REQUESTS configured as 1 and MAX_STT_PENDING_REQUESTS as 2
Init ==
  /\ Listening([RATE_LIMIT_MAX_REQUESTS |-> 1, MAX_STT_PENDING_REQUESTS |-> 2])
  /\ call = NoCall

\* the whole server
Next ==
  \/ \E c \in Conns : \E callerId \in CallerIds : Connect(c, callerId)
  \/ \E c \in Conns :
       MakeCall(c, {ValidCall("calleeId", "sdpOffer"), IncompleteCall("calleeId")})
  \/ \E c \in Conns : AnswerCall(c, {ValidCall("callerId", "sdpAnswer")})
  \/ \E c \in Conns : EndCall(c, {ValidCall("calleeId", "unused")})
  \/ \E c \in Conns : IceCandidateEvent(c, {ValidCall("calleeId", "iceCandidate")})
  \/ \E c \in Conns : AudioRecording(c, AudioPayloads)
  \/ \E c \in Conns : RecognizeSettled(c)
  \/ \E c \in Conns : TranslateSettled(c)
  \/ Tick

Spec == Init /\ [][Next]_vars

\* the identity gate and the audio pipeline alone
PipelineNext ==
  \/ \E c \in Conns : \E callerId \in CallerIds : Connect(c, callerId)
  \/ \E c \in Conns : AudioRecording(c, AudioPayloads)
  \/ \E c \in Conns : RecognizeSettled(c)
  \/ \E c \in Conns : TranslateSettled(c)
  \/ Tick

PipelineSpec == Init /\ [][PipelineNext]_vars

\* the audio pipeline of accepted sockets within one millisecond, every
\* external call settling eventually
DrainNext ==
  \/ \E c \in Conns :
       \E callerId \in {id \in CallerIds : isNonEmptyString(id)} :
         Connect(c, callerId)
  \/ \E c \in Conns : AudioRecording(c, AudioPayloads)
  \/ \E c \in Conns : RecognizeSettled(c)
  \/ \E c \in Conns : TranslateSettled(c)

DrainFair ==
  /\ Init
  /\ [][DrainNext]_vars
  /\ \A c \in Conns :
       WF_vars(RecognizeSettled(c)) /\ WF_vars(TranslateSettled(c))

\* the identity gate and the signaling relay alone, over every payload shape
SignalNext ==
  \/ \E c \in Conns : \E callerId \in CallerIds : Connect(c, callerId)
  \/ \E c \in Conns : MakeCall(c, SignalPayload("calleeId", "sdpOffer"))
  \/ \E c \in Conns : AnswerCall(c, SignalPayload("callerId", "sdpAnswer"))
  \/ \E c \in Conns : EndCall(c, SignalPayload("calleeId", "unused"))
  \/ \E c \in Conns : IceCandidateEvent(c, SignalPayload("calleeId", "iceCandidate"))

SignalSpec == Init /\ [][SignalNext]_vars

\* one audio item at a time, over every payload shape, within one
\* millisecond: a client sends its next chunk when no chunk is pending on the
\* server
SubmitWhenIdle(c) ==
  /\ \A d \in Conns : sttQueue[d].chain = <<>>
  /\ AudioRecording(c, PayloadShapes \cup LanguagePayloads)

ItemNext ==
  \/ \E c \in Conns :
       \E callerId \in {id \in CallerIds : isNonEmptyString(id)} :
         Connect(c, callerId)
  \/ \E c \in Conns : SubmitWhenIdle(c)
  \/ \E c \in Conns : RecognizeSettled(c)
  \/ \E c \in Conns : TranslateSettled(c)

ItemSpec == Init /\ [][ItemNext]_vars

\* the audio pipeline of a server started with RATE_LIMIT_MAX_REQUESTS=2 and
\* MAX_STT_PENDING_REQUESTS=3: two items can wait behind a call in flight
BurstInit ==
  /\ Listening([RATE_LIMIT_MAX_REQUESTS |-> 2, MAX_STT_PENDING_REQUESTS |-> 3])
  /\ call = NoCall

BurstSpec == BurstInit /\ [][PipelineNext]_vars

\* the language codes a helper is called with: each primary subtag, in both
\* cases, alone and followed by subtags, with and without padding
PrimarySubtags ==
  {<<"e", "n">>, <<"E", "N">>, <<"E", "n">>, <<"e", "n", "g">>, <<"e">>,
   <<"m", "y">>, <<"M", "Y">>, <<"m", "Y">>, <<"m", "y", "a">>, <<"m">>,
   <<"j", "a">>, <<"J", "A">>, <<"f", "r">>, <<"F", "r">>, <<"n", "e">>,
   <<"y", "m">>, <<>>}

Subtags ==
  {<<>>, <<"-", "U", "S">>, <<"-", "J", "P">>, <<"-", "m", "y">>,
   <<"-", "L", "a", "t", "n", "-", "e", "n">>}

Padding == {<<>>, <<" ">>}

LanguageCodes ==
  {Undef, Null}
    \cup {Str(before \o primary \o subtags \o after) :
            before \in Padding, primary \in PrimarySubtags,
            subtags \in Subtags, after \in Padding}

\* a call of normalizeTranslationLanguageCode is about to be made
CallInit ==
  /\ Listening([RATE_LIMIT_MAX_REQUESTS |-> 1, MAX_STT_PENDING_REQUESTS |-> 2])
  /\ \E languageCode \in LanguageCodes :
       call = [fn |-> "normalizeTranslationLanguageCode",
               argument |-> languageCode, returned |-> FALSE, value |-> Undef]

\* the call returns
Return ==
  /\ call.fn = "normalizeTranslationLanguageCode"
  /\ ~call.returned
  /\ call' = [call EXCEPT
                !.returned = TRUE,
                !.value = Str(normalizeTranslationLanguageCode(call.argument))]
  /\ UNCHANGED <<status, user, connectError, rooms, sttRateTimestamps,
                 pendingSttRequests, sttQueue, received, now, projectId, env,
                 emitted, last>>

CallNext == Return

CallSpec == CallInit /\ [][CallNext]_vars

(* ======================= properties of the pipeline ==================== *)
\* the items of a chain, and those that wait for their turn
Ids(queue) == {queue.chain[j].id : j \in DOMAIN queue.chain}

QueuedIds(queue) ==
  {queue.chain[j].id : j \in {k \in DOMAIN queue.chain :
                                queue.chain[k].phase = "queued"}}

\* the units of socket c with an external call in flight
InFlight(c) ==
  {j \in DOMAIN sttQueue[c].chain :
     sttQueue[c].chain[j].phase \in {"stt", "translate"}}

\* the events of the last turn that answer item i
Answers(ems, i) == {k \in DOMAIN ems : ems[k].item = i}

IsSttError(e, code) ==
  e.event = "sttError" /\ e.payload.code = code

\* C1: on every socket at most one accepted audio item is being processed
\* (has a speech-to-text or translation call in flight) at any time, and it
\* is the oldest unfinished one; the others wait for their turn.
C1_OneInFlight ==
  \A c \in Conns : Cardinality(InFlight(c)) <= 1 /\ InFlight(c) \subseteq {1}

\* C1 witness: a further item was accepted while a call is in flight, and it
\* waits behind it.
C1_Witness ==
  \E c \in Conns :
    /\ Len(sttQueue[c].chain) = 2
    /\ sttQueue[c].chain[1].phase = "translate"
    /\ sttQueue[c].chain[2].phase = "queued"

\* C2 as stated: every outcome event of an audio item (an stt-result or an
\* stt-error of any code) is emitted before the outcome of every item
\* submitted later on the same socket: when an outcome of item i is emitted no
\* earlier item of that socket is still unfinished, and the outcomes of one
\* turn come in submission order.
C2_AllOutcomesInOrder ==
  \A k \in DOMAIN emitted :
    emitted[k].item # 0 =>
      /\ \A i \in Ids(sttQueue[emitted[k].from]) : i > emitted[k].item
      /\ \A j \in DOMAIN emitted : j < k => emitted[j].item < emitted[k].item

\* C2 amended: the same for the outcome events of accepted items, that is for
\* every stt-result and every stt-error other than STT_BACKPRESSURE.
C2_AcceptedInOrder ==
  \A k \in DOMAIN emitted :
    (emitted[k].item # 0 /\ ~IsSttError(emitted[k], "STT_BACKPRESSURE")) =>
      /\ \A i \in Ids(sttQueue[emitted[k].from]) : i > emitted[k].item
      /\ \A j \in DOMAIN emitted : j < k => emitted[j].item < emitted[k].item

\* C2 witness: the call of an item settles while a later item waits, and the
\* turn emits the result of the first and then the error of the second.
C2_Witness ==
  /\ last.op = "recognizeSettled"
  /\ Len(emitted) = 2
  /\ emitted[1].event = "sttResult"
  /\ IsSttError(emitted[2], "STT_INVALID_PAYLOAD")
  /\ emitted[1].item < emitted[2].item

\* the audioRecording event of this step arrives on socket c
Submits(c) ==
  /\ received' = received + 1
  /\ last'.op = "audioRecording"
  /\ last'.conn = c

\* C3: an audio item submitted while pendingCount >= MAX_PENDING is answered
\* at once with exactly one STT_BACKPRESSURE to the sender and is discarded:
\* pendingCount, the work queue and rateTimestamps are unchanged and no unit
\* of work (hence no external call) exists for the item.
C3_Backpressure ==
  [][\A c \in Conns :
       (Submits(c) /\ pendingSttRequests[c] >= MAX_STT_PENDING_REQUESTS) =>
         /\ pendingSttRequests'[c] = pendingSttRequests[c]
         /\ sttQueue'[c] = sttQueue[c]
         /\ sttRateTimestamps'[c] = sttRateTimestamps[c]
         /\ Len(emitted') = 1
         /\ IsSttError(emitted'[1], "STT_BACKPRESSURE")
         /\ emitted'[1].to = {c}
         /\ emitted'[1].item = received'
         /\ \A d \in Conns : received' \notin Ids(sttQueue'[d])]_vars

\* C3 witness: an item has just been refused on a socket at the ceiling.
C3_Witness ==
  /\ last.op = "audioRecording"
  /\ pendingSttRequests[last.conn] = MAX_STT_PENDING_REQUESTS
  /\ Len(emitted) = 1
  /\ IsSttError(emitted[1], "STT_BACKPRESSURE")

\* C4: 0 <= pendingCount <= MAX_PENDING on every socket in every state.
C4_PendingBounded ==
  \A c \in Conns :
    pendingSttRequests[c] >= 0
      /\ pendingSttRequests[c] <= MAX_STT_PENDING_REQUESTS

\* C4 witness: a socket is at the ceiling again after an earlier item of it
\* has finished or was refused.
C4_Witness ==
  \E c \in Conns :
    /\ pendingSttRequests[c] = MAX_STT_PENDING_REQUESTS
    /\ received > MAX_STT_PENDING_REQUESTS
    /\ \A d \in Conns \ {c} : status[d] # "connected"

\* the items of socket c whose turn arrives in this step: they waited, or
\* arrive, and no longer wait afterwards; on a rejected chain no callback runs
Started(c) ==
  IF sttQueue'[c].rejected THEN {}
  ELSE (QueuedIds(sttQueue[c])
          \cup (IF Submits(c) /\ pendingSttRequests[c] < MAX_STT_PENDING_REQUESTS
                THEN {received'} ELSE {}))
         \ QueuedIds(sttQueue'[c])

\* the timestamps of socket c that are less than a window old
InWindow(c) ==
  {k \in DOMAIN sttRateTimestamps[c] :
     now - sttRateTimestamps[c][k] < RATE_LIMIT_WINDOW_MS}

\* C5: when the turn of an accepted item arrives and the number of
\* rateTimestamps within the window is >= the ceiling, the sender gets
\* exactly one STT_RATE_LIMITED for it and the item stops: its unit is gone,
\* no call is started, no other event answers it (its payload is not
\* validated), and rateTimestamps is left pruned to the entries within the
\* window, with no entry added.
C5_RateLimited ==
  [][\A c \in Conns :
       (Started(c) # {} /\ Cardinality(InWindow(c)) >= RATE_LIMIT_MAX_REQUESTS) =>
         /\ \A i \in Started(c) :
              /\ i \notin Ids(sttQueue'[c])
              /\ Cardinality(Answers(emitted', i)) = 1
              /\ \A k \in Answers(emitted', i) :
                   IsSttError(emitted'[k], "STT_RATE_LIMITED")
                     /\ emitted'[k].to = {c}
         /\ Len(sttRateTimestamps'[c]) = Cardinality(InWindow(c))
         /\ \A k \in DOMAIN sttRateTimestamps'[c] :
              now - sttRateTimestamps'[c][k] < RATE_LIMIT_WINDOW_MS]_vars

\* C5 witness: an item has just been answered STT_RATE_LIMITED while an older
\* timestamp stays recorded.
C5_Witness ==
  /\ last.op = "audioRecording"
  /\ Len(emitted) = 1
  /\ IsSttError(emitted[1], "STT_RATE_LIMITED")
  /\ sttRateTimestamps[last.conn] # <<>>
  /\ now > sttRateTimestamps[last.conn][1]

\* the first item of socket c whose turn arrives in this step
FirstStarted(c) == CHOOSE i \in Started(c) : \A j \in Started(c) : i <= j

\* C6: once every recorded timestamp of a socket is at least a window old,
\* the next item processed on it passes the rate-limit check: it is not
\* answered STT_RATE_LIMITED and the timestamps left are those of this turn.
C6_WindowElapsed ==
  [][\A c \in Conns :
       (Started(c) # {} /\ InWindow(c) = {}) =>
         /\ \A k \in Answers(emitted', FirstStarted(c)) :
              ~IsSttError(emitted'[k], "STT_RATE_LIMITED")
         /\ sttRateTimestamps'[c] # <<>>
         /\ \A k \in DOMAIN sttRateTimestamps'[c] :
              sttRateTimestamps'[c][k] = now]_vars

\* C6 witness: the third item of a socket passes the check at time 2 (its
\* call is in flight and its timestamp is the only one), which leaves the
\* first item recorded at time 0 and the second rate-limited before time 2.
C6_Witness ==
  \E c \in Conns :
    /\ \A d \in Conns \ {c} : status[d] # "connected"
    /\ received = 3
    /\ now = RATE_LIMIT_WINDOW_MS
    /\ ~sttQueue[c].rejected
    /\ Len(sttQueue[c].chain) = 1
    /\ sttQueue[c].chain[1].id = 3
    /\ sttQueue[c].chain[1].phase = "stt"
    /\ sttRateTimestamps[c] = <<now>>
    /\ last.op = "audioRecording"

(* =============== properties of the identity gate and the relay ========= *)
\* a value that is no identity: not a string, or nothing but white space
Blank(value) ==
  value.t # "string" \/ \A k \in DOMAIN value.v : value.v[k] \in WhiteSpace

\* the rooms socket c has joined
RoomsOf(c) == {m[1] : m \in {n \in rooms : n[2] = c}}

EventOps ==
  {"makeCall", "answerCall", "endCall", "IceCandidate", "audioRecording",
   "recognizeSettled", "translateSettled"}

\* what holds of every state for C7
C7_Gate ==
  /\ last.op = "connect" =>
       IF Blank(last.data)
       THEN /\ status[last.conn] = "refused"
            /\ connectError[last.conn] = "callerId query parameter is required"
       ELSE /\ status[last.conn] = "connected"
            /\ connectError[last.conn] = "none"
  /\ \A c \in Conns :
       status[c] # "connected" =>
         /\ user[c] = Undef
         /\ RoomsOf(c) = {}
         /\ sttRateTimestamps[c] = <<>>
         /\ pendingSttRequests[c] = 0
         /\ sttQueue[c].chain = <<>>
  /\ \A c \in Conns :
       status[c] = "connected" =>
         /\ user[c].t = "string"
         /\ user[c].v # <<>>
         /\ user[c].v[1] \notin WhiteSpace
         /\ user[c].v[Len(user[c].v)] \notin WhiteSpace
         /\ RoomsOf(c) = {user[c].v}
  /\ last.op \in EventOps => status[last.conn] = "connected"
  /\ \A k \in DOMAIN emitted : status[emitted[k].from] = "connected"

\* what holds of every step for C7
C7_Steps ==
  \A c \in Conns :
    /\ status[c] = "refused" => status'[c] = "refused"
    /\ status[c] = "connected" =>
         status'[c] = "connected" /\ user'[c] = user[c]

\* C7: a connection attempt whose identity is absent, not a string or blank
\* after trimming is refused with the identity-required error, gets no
\* session state, joins no room, stays refused and has none of its events
\* handled; every accepted socket has one non-empty trimmed identity, bound
\* before any of its events is handled and never changed, and has joined the
\* room of that identity only.
C7_IdentityGate == []C7_Gate /\ [][C7_Steps]_vars

\* C7 witness: a whitespace-only identity has just been refused while
\* another socket is connected.
C7_Witness ==
  /\ last.op = "connect"
  /\ last.data = Str(<<" ">>)
  /\ status[last.conn] = "refused"
  /\ \E d \in Conns : status[d] = "connected"

\* a required string field that is present and not blank
Present(value) == ~Blank(value)

\* the event a relay emits to the sockets bound to the identity target names
Relayed(c, target, event, payload) ==
  [event |-> event, payload |-> payload, from |-> c,
   room |-> Str(Trim(target.v)),
   to |-> {d \in Conns : status[d] = "connected"
                           /\ user[d] = Str(Trim(target.v))} \ {c},
   item |-> 0]

\* the event emitted to the sender itself
ToSelf(c, event, payload) ==
  [event |-> event, payload |-> payload, from |-> c, room |-> Undef,
   to |-> {c}, item |-> 0]

\* C8: a signaling event whose required fields are present and non-blank
\* emits exactly the events of the relay table, and no signal-error:
\* call-offer -> new-call{callerId, sdpOffer} to calleeId; call-answer ->
\* call-answered{callee, sdpAnswer} to callerId; call-end -> call-ended{from}
\* to calleeId and leave-call{to} to the sender, also when nobody is bound to
\* calleeId; ice-candidate -> ice-candidate{sender, iceCandidate} to calleeId.
C8_RelayTable ==
  LET c == last.conn
      data == last.data
      calleeId == Get(data, "calleeId")
      callerId == Get(data, "callerId")
      sdpOffer == Get(data, "sdpOffer")
      sdpAnswer == Get(data, "sdpAnswer")
      iceCandidate == Get(data, "iceCandidate")
  IN /\ (last.op = "makeCall" /\ Present(calleeId) /\ Present(sdpOffer)) =>
          emitted = <<Relayed(c, calleeId, "newCall",
                        [callerId |-> user[c],
                         sdpOffer |-> Str(Trim(sdpOffer.v))])>>
     /\ (last.op = "answerCall" /\ Present(callerId) /\ Present(sdpAnswer)) =>
          emitted = <<Relayed(c, callerId, "callAnswered",
                        [callee |-> user[c],
                         sdpAnswer |-> Str(Trim(sdpAnswer.v))])>>
     /\ (last.op = "endCall" /\ Present(calleeId)) =>
          emitted = <<Relayed(c, calleeId, "callEnded", [from |-> user[c]]),
                      ToSelf(c, "leaveCall", [to |-> Str(Trim(calleeId.v))])>>
     /\ (last.op = "IceCandidate" /\ Present(calleeId)
           /\ iceCandidate.t \notin {"null", "undefined"}) =>
          emitted = <<Relayed(c, calleeId, "IceCandidate",
                        [sender |-> user[c], iceCandidate |-> iceCandidate])>>

\* C8 witness: call-end for an identity nobody is bound to: call-ended
\* reaches nobody and the sender still gets leave-call.
C8_Witness ==
  /\ last.op = "endCall"
  /\ Get(last.data, "calleeId") = Str(<<"C">>)
  /\ Len(emitted) = 2
  /\ emitted[1].event = "callEnded"
  /\ emitted[1].to = {}
  /\ emitted[2].event = "leaveCall"
  /\ emitted[2].to = {last.conn}

\* the last turn answered the sender with one signal-error of the given code
\* and emitted nothing else
OnlySignalError(code) ==
  /\ Len(emitted) = 1
  /\ emitted[1].event = "signalError"
  /\ emitted[1].payload.code = code
  /\ emitted[1].to = {last.conn}

\* C9: a signaling event with a required field absent, not a string or
\* empty/whitespace-only (or with iceCandidate null or absent) is answered
\* with one signal-error of the event's code to the sender; nothing is
\* forwarded and call-end emits no leave-call.
C9_InvalidSignal ==
  LET data == last.data
      calleeId == Get(data, "calleeId")
      callerId == Get(data, "callerId")
      sdpOffer == Get(data, "sdpOffer")
      sdpAnswer == Get(data, "sdpAnswer")
      iceCandidate == Get(data, "iceCandidate")
  IN /\ (last.op = "makeCall" /\ (Blank(calleeId) \/ Blank(sdpOffer))) =>
          OnlySignalError("INVALID_MAKE_CALL_PAYLOAD")
     /\ (last.op = "answerCall" /\ (Blank(callerId) \/ Blank(sdpAnswer))) =>
          OnlySignalError("INVALID_ANSWER_CALL_PAYLOAD")
     /\ (last.op = "endCall" /\ Blank(calleeId)) =>
          OnlySignalError("INVALID_END_CALL_PAYLOAD")
     /\ (last.op = "IceCandidate"
           /\ (Blank(calleeId) \/ iceCandidate.t \in {"null", "undefined"})) =>
          OnlySignalError("INVALID_ICE_CANDIDATE_PAYLOAD")

\* C9 witness: call-offer with a whitespace-only calleeId and a good
\* sdpOffer has just been answered with the signal-error.
C9_Witness ==
  /\ last.op = "makeCall"
  /\ Get(last.data, "calleeId") = Str(<<" ">>)
  /\ Present(Get(last.data, "sdpOffer"))
  /\ OnlySignalError("INVALID_MAKE_CALL_PAYLOAD")

\* C10: every stt-error and every signal-error is delivered to the socket
\* whose event caused it and to no other socket.
C10_ErrorsToSender ==
  \A k \in DOMAIN emitted :
    emitted[k].event \in {"sttError", "signalError"} =>
      /\ emitted[k].from = last.conn
      /\ emitted[k].to = {last.conn}

\* C10 witness: an stt-error has just been emitted by a socket while another
\* connected socket is bound to the same identity.
C10_Witness ==
  \E k \in DOMAIN emitted :
    /\ emitted[k].event = "sttError"
    /\ \E d \in Conns \ {emitted[k].from} :
         status[d] = "connected" /\ user[d] = user[emitted[k].from]

(* ==================== properties across connections =================== *)
SignalOps == {"makeCall", "answerCall", "endCall", "IceCandidate"}

\* the identity a signaling event is addressed to
SignalTarget(op, data) ==
  Get(data, IF op = "answerCall" THEN "callerId" ELSE "calleeId")

\* the required fields of a signaling event are present and not blank
ValidSignal(op, data) ==
  /\ Present(SignalTarget(op, data))
  /\ op = "makeCall" => Present(Get(data, "sdpOffer"))
  /\ op = "answerCall" => Present(Get(data, "sdpAnswer"))
  /\ op = "IceCandidate" =>
       Get(data, "iceCandidate").t \notin {"null", "undefined"}

\* the event the relay table forwards for a signaling event
RelayEvent(op) ==
  CASE op = "makeCall" -> "newCall"
    [] op = "answerCall" -> "callAnswered"
    [] op = "endCall" -> "callEnded"
    [] OTHER -> "IceCandidate"

\* a call of some socket other than c is in flight
OthersBusy(c) == \E d \in Conns \ {c} : InFlight(d) # {}

\* C11: while a speech-to-text or translation call of a socket is in flight,
\* (a) a signaling event of any socket, that socket included, is handled in
\* its own turn: it emits at once (for valid fields the relay event,
\* addressed to the trimmed target) and touches no work queue; (b) an audio
\* item submitted on another socket whose own queue is empty is accepted and
\* started in the same turn: it is answered, or its own call is in flight;
\* (c) the call of another socket settles and its item is answered or moves
\* on, whatever the first socket's queue holds.
C11_Independent ==
  [][\A c \in Conns :
       /\ (last'.conn = c /\ last'.op \in SignalOps
             /\ \E d \in Conns : InFlight(d) # {}) =>
            /\ emitted' # <<>>
            /\ \A k \in DOMAIN emitted' :
                 emitted'[k].from = c /\ emitted'[k].item = 0
            /\ ValidSignal(last'.op, last'.data) =>
                 /\ emitted'[1].event = RelayEvent(last'.op)
                 /\ emitted'[1].room =
                      Str(Trim(SignalTarget(last'.op, last'.data).v))
            /\ sttQueue' = sttQueue
            /\ pendingSttRequests' = pendingSttRequests
       /\ (Submits(c) /\ OthersBusy(c) /\ sttQueue[c].chain = <<>>
             /\ ~sttQueue[c].rejected
             /\ pendingSttRequests[c] < MAX_STT_PENDING_REQUESTS) =>
            \/ /\ Answers(emitted', received') # {}
               /\ sttQueue'[c].chain = <<>>
               /\ pendingSttRequests'[c] = pendingSttRequests[c]
            \/ /\ Len(sttQueue'[c].chain) = 1
               /\ sttQueue'[c].chain[1].id = received'
               /\ sttQueue'[c].chain[1].phase = "stt"
       /\ (last'.conn = c
             /\ last'.op \in {"recognizeSettled", "translateSettled"}
             /\ OthersBusy(c)) =>
            /\ Head(sttQueue[c].chain).id \notin Ids(sttQueue'[c])
                 \/ (Head(sttQueue[c].chain).phase = "stt"
                       /\ Head(sttQueue'[c].chain).phase = "translate")
            /\ \A d \in Conns \ {c} : sttQueue'[d] = sttQueue[d]]_vars

\* C11 witness: the result of an item has just been emitted on one socket
\* while a call of another socket, started before that item was submitted,
\* is still in flight.
C11_Witness ==
  /\ last.op \in {"recognizeSettled", "translateSettled"}
  /\ \E k \in DOMAIN emitted :
       /\ emitted[k].event = "sttResult"
       /\ \E d \in Conns \ {last.conn} :
            /\ InFlight(d) # {}
            /\ Head(sttQueue[d].chain).id < emitted[k].item

\* C12: every turn handled for a socket (connection, signaling, audio
\* submission, processing step, settling or failure of an external call)
\* leaves rateTimestamps, the work queue and pendingCount of every other
\* socket as they were; so does the passing of time.
C12_SessionFrame ==
  [][\A d \in Conns :
       d # last'.conn =>
         /\ sttRateTimestamps'[d] = sttRateTimestamps[d]
         /\ sttQueue'[d] = sttQueue[d]
         /\ pendingSttRequests'[d] = pendingSttRequests[d]]_vars

\* C12 witness: an external call of one socket has just failed while
\* another socket holds a recorded timestamp and a pending item.
C12_Witness ==
  /\ last.op \in {"recognizeSettled", "translateSettled"}
  /\ \E k \in DOMAIN emitted : IsSttError(emitted[k], "STT_PROCESSING_FAILED")
  /\ \E d \in Conns \ {last.conn} :
       /\ sttRateTimestamps[d] # <<>>
       /\ pendingSttRequests[d] > 0
       /\ sttQueue[d].chain # <<>>

(* ================== properties of one item's processing ================ *)
SettleOps == {"recognizeSettled", "translateSettled"}

\* the events of the primed state that answer item i are exactly one
\* stt-error of the given code, delivered to socket c
OneSttError(c, i, code) ==
  /\ Cardinality(Answers(emitted', i)) = 1
  /\ \A k \in Answers(emitted', i) :
       IsSttError(emitted'[k], code) /\ emitted'[k].to = {c}

\* C13 as stated: when the speech-to-text call or the translation call of an
\* item fails, whatever it fails with, the sender gets exactly one stt-error
\* STT_PROCESSING_FAILED with the fixed message for that item, and no
\* stt-result answers it.
C13_FailureReported ==
  [][\A c \in Conns :
       (last'.conn = c /\ last'.op \in SettleOps /\ last'.data.t = "reject") =>
         /\ OneSttError(c, Head(sttQueue[c].chain).id, "STT_PROCESSING_FAILED")
         /\ \A k \in Answers(emitted', Head(sttQueue[c].chain).id) :
              emitted'[k].payload.message = "Unable to process this audio chunk"]_vars

\* the payload of item i of socket c, whose turn arrives in this step: it
\* waited in the chain, or it is the payload of the event of this step
ItemData(c, i) ==
  IF i \in Ids(sttQueue[c])
  THEN sttQueue[c].chain[CHOOSE j \in DOMAIN sttQueue[c].chain :
                           sttQueue[c].chain[j].id = i].data
  ELSE last'.data

\* the text of an audio field without its data URL prefix and white space
AudioText(audio) ==
  RemoveWhiteSpace(IF StartsWith(audio.v, DataPrefix)
                   THEN AfterComma(audio.v) ELSE audio.v)

\* the number of bytes an audio field carries
AudioBytes(audio) ==
  IF audio.t = "string" THEN Base64DecodedLength(AudioText(audio))
  ELSE Len(audio.v)

\* an invalid audio payload: no object, recipient absent or blank, audio
\* absent, of no supported type, not base64, of zero bytes or of more than
\* MAX_AUDIO_BYTES bytes
InvalidAudioPayload(data) ==
  LET audio == Get(data, "audio") IN
    \/ data.t # "object"
    \/ Blank(Get(data, "to"))
    \/ audio.t \notin {"string", "buffer", "uint8array", "array"}
    \/ /\ audio.t = "string"
       /\ \/ AudioText(audio) = <<>>
          \/ \E k \in DOMAIN AudioText(audio) :
               AudioText(audio)[k] \notin Range(Base64Alphabet) \cup {"="}
    \/ AudioBytes(audio) = 0
    \/ AudioBytes(audio) > MAX_AUDIO_BYTES

\* C14: an accepted item whose turn arrives while fewer than the ceiling of
\* rateTimestamps lie within the window, and whose payload is invalid, is
\* answered with exactly one STT_INVALID_PAYLOAD to the sender and stops: no
\* unit of it remains (no speech-to-text call, no translation call) and no
\* other event, hence no stt-result, answers it.
C14_InvalidPayload ==
  [][\A c \in Conns :
       (Started(c) # {}
          /\ Cardinality(InWindow(c)) < RATE_LIMIT_MAX_REQUESTS
          /\ InvalidAudioPayload(ItemData(c, FirstStarted(c)))) =>
         /\ OneSttError(c, FirstStarted(c), "STT_INVALID_PAYLOAD")
         /\ FirstStarted(c) \notin Ids(sttQueue'[c])
         /\ pendingSttRequests'[c] = Len(sttQueue'[c].chain)]_vars

\* C14 witness: a chunk of four bytes, one more than MAX_AUDIO_BYTES, sent as
\* bytes, has just been answered STT_INVALID_PAYLOAD.
C14_Witness ==
  /\ last.op = "audioRecording"
  /\ Get(last.data, "audio") = Bytes(<<1, 2, 3, 4>>)
  /\ Len(emitted) = 1
  /\ IsSttError(emitted[1], "STT_INVALID_PAYLOAD")
  /\ emitted[1].payload.message = "Audio payload size is invalid"
  /\ sttQueue[last.conn].chain = <<>>

\* the step is the settling of client.recognize of socket c with an answer
\* that carries no text: no results, or transcripts that are absent, empty
\* or white space
SilentAnswer(c) ==
  /\ last'.conn = c
  /\ last'.op = "recognizeSettled"
  /\ last'.data.t = "resolve"
  /\ \A k \in DOMAIN last'.data.v : Blank(last'.data.v[k])

\* the units of socket c that finish in this step each release one slot
SlotsReleased(c) ==
  pendingSttRequests'[c] =
    pendingSttRequests[c] - (Len(sttQueue[c].chain) - Len(sttQueue'[c].chain))

\* C15: when speech-to-text returns no results or only empty transcripts for
\* an item, the item ends silently: no event of the turn answers it (no
\* stt-result to anyone, no stt-error to the sender), its unit is gone without
\* a translation call, and its pending slot is released.
C15_SilentOnEmpty ==
  [][\A c \in Conns :
       SilentAnswer(c) =>
         /\ Answers(emitted', Head(sttQueue[c].chain).id) = {}
         /\ Head(sttQueue[c].chain).id \notin Ids(sttQueue'[c])
         /\ SlotsReleased(c)
         /\ pendingSttRequests'[c] < pendingSttRequests[c]]_vars

\* C15 witness: an answer with one absent and one white-space transcript has
\* just ended the only item of a socket with no event.
C15_Witness ==
  /\ last.op = "recognizeSettled"
  /\ last.data = Resolved(<<Undef, Str(<<" ">>)>>)
  /\ emitted = <<>>
  /\ sttQueue[last.conn] = [chain |-> <<>>, rejected |-> FALSE]
  /\ pendingSttRequests[last.conn] = 0

\* the step is the settling of client.recognize of socket c with an answer
\* that carries text
SpokenAnswer(c) ==
  /\ last'.conn = c
  /\ last'.op = "recognizeSettled"
  /\ last'.data.t = "resolve"
  /\ \E k \in DOMAIN last'.data.v : ~Blank(last'.data.v[k])

\* after the step the head unit of socket c waits for translateText
Translating(c) ==
  /\ sttQueue'[c].chain # <<>>
  /\ Head(sttQueue'[c].chain).id = Head(sttQueue[c].chain).id
  /\ Head(sttQueue'[c].chain).phase = "translate"

\* C16: for an item with a non-empty transcript, translateText is invoked
\* exactly if the project id is set and the coarse form of the source
\* language differs from the resolved target language; when it is not
\* invoked, exactly one event answers the item, an stt-result whose translated
\* text is the transcript.
C16_TranslationDecision ==
  [][\A c \in Conns :
       SpokenAnswer(c) =>
         LET parsedPayload == Head(sttQueue[c].chain).parsed
             i == Head(sttQueue[c].chain).id
         IN /\ Translating(c) <=>
                 (projectId
                    /\ normalizeTranslationLanguageCode(
                         Str(parsedPayload.sourceLanguageCode))
                         # parsedPayload.targetLanguageCode)
            /\ ~Translating(c) =>
                 /\ Cardinality(Answers(emitted', i)) = 1
                 /\ \A k \in Answers(emitted', i) :
                      /\ emitted'[k].event = "sttResult"
                      /\ emitted'[k].payload.text.v # <<>>
                      /\ emitted'[k].payload.translated =
                           emitted'[k].payload.text]_vars

\* C16 witness: with the project id set, an item has just been answered in
\* the turn of its speech-to-text answer, with its transcript untranslated:
\* its source and target coincide.
C16_Witness ==
  /\ projectId
  /\ last.op = "recognizeSettled"
  /\ Len(emitted) = 1
  /\ emitted[1].event = "sttResult"
  /\ emitted[1].payload.translated = Str(<<"h", " ", "i">>)

Supported == {<<"e", "n">>, <<"m", "y">>}

\* C17: for every unit that has been validated, with source the coarse form
\* of its source language: the resolved target is one of the two supported
\* forms; it is the coarse form of the requested target when that is a
\* syntactically valid code with a supported coarse form; otherwise it is a
\* supported form other than source.
C17_TargetResolution ==
  \A c \in Conns : \A j \in DOMAIN sttQueue[c].chain :
    LET unit == sttQueue[c].chain[j]
        requested == Get(unit.data, "targetLanguage")
        source == normalizeTranslationLanguageCode(
                    Str(unit.parsed.sourceLanguageCode))
        target == unit.parsed.targetLanguageCode
    IN unit.phase # "queued" =>
         /\ target \in Supported
         /\ IF isValidLanguageCode(requested)
                  /\ normalizeTranslationLanguageCode(requested) \in Supported
            THEN target = normalizeTranslationLanguageCode(requested)
            ELSE target # source

\* C17 witness: a chunk in Burmese that asks for French is being processed
\* with target English.
C17_Witness ==
  \E c \in Conns :
    /\ sttQueue[c].chain # <<>>
    /\ Head(sttQueue[c].chain).phase = "stt"
    /\ Get(Head(sttQueue[c].chain).data, "language")
         = Str(<<" ", "M", "Y", "-", "m", "m">>)
    /\ Get(Head(sttQueue[c].chain).data, "targetLanguage") = Str(<<"f", "r">>)
    /\ Head(sttQueue[c].chain).parsed.targetLanguageCode = <<"e", "n">>

\* the stt-result of the unit at the head of socket c's chain, as the claim
\* describes it, for the given transcript
ResultOf(c, transcript) ==
  LET data == Head(sttQueue[c].chain).data
      recipient == Trim(Get(data, "to").v)
      sequenceId == Get(data, "sequenceId")
  IN [event |-> "sttResult",
      room |-> Str(recipient),
      from |-> c,
      to |-> {d \in Conns : status[d] = "connected"
                              /\ user[d] = Str(recipient)} \ {c},
      item |-> Head(sttQueue[c].chain).id,
      text |-> Str(transcript),
      sender |-> user[c],
      recipient |-> Str(recipient),
      sequenceId |-> IF sequenceId.t \in {"undefined", "null"} THEN Null
                     ELSE sequenceId]

\* exactly one event of the primed state answers the head unit of socket c,
\* and it is the stt-result described by expected
OneResult(c, expected) ==
  /\ Cardinality(Answers(emitted', expected.item)) = 1
  /\ \A k \in Answers(emitted', expected.item) :
       /\ emitted'[k].event = expected.event
       /\ emitted'[k].room = expected.room
       /\ emitted'[k].from = expected.from
       /\ emitted'[k].to = expected.to
       /\ c \notin emitted'[k].to
       /\ emitted'[k].payload.text = expected.text
       /\ emitted'[k].payload.translated.t = "string"
       /\ emitted'[k].payload.translated.v # <<>>
       /\ emitted'[k].payload.from = expected.sender
       /\ emitted'[k].payload.to = expected.recipient
       /\ emitted'[k].payload.sequenceId = expected.sequenceId
  /\ expected.item \notin Ids(sttQueue'[c])
  /\ SlotsReleased(c)
  /\ ~sttQueue'[c].rejected

\* C18: a valid item whose speech-to-text answer carries text and whose
\* calls do not fail is answered by exactly one event, the stt-result {text:
\* transcript, translated, from: the sender's identity, to: the trimmed
\* recipient id, sequenceId: the value sent, or null when absent}, addressed
\* to the room of the recipient identity and delivered to its sockets other
\* than the sender; when no socket is bound to that identity it is delivered
\* to nobody, and in every case the unit is gone, its slot is released and no
\* stt-error answers it.
C18_ResultDelivery ==
  [][\A c \in Conns :
       /\ SpokenAnswer(c) =>
            Translating(c)
              \/ OneResult(c, ResultOf(c, Transcription(last'.data.v)))
       /\ (last'.conn = c /\ last'.op = "translateSettled"
             /\ last'.data.t = "resolve") =>
            OneResult(c, ResultOf(c, Head(sttQueue[c].chain).transcription))]_vars

\* C18 witness: the result of a chunk for the identity C, to which no socket
\* is bound, has just been emitted to nobody, with the sequence id as sent;
\* nothing else was emitted and the sender's queue is empty.
C18_Witness ==
  /\ last.op \in SettleOps
  /\ Len(emitted) = 1
  /\ emitted[1].event = "sttResult"
  /\ emitted[1].room = Str(<<"C">>)
  /\ emitted[1].to = {}
  /\ emitted[1].payload.sequenceId = Str(<<"s">>)
  /\ sttQueue[last.conn] = [chain |-> <<>>, rejected |-> FALSE]
  /\ pendingSttRequests[last.conn] = 0

(* ===================== properties of the pending slots ================= *)
\* what holds of every state for C19: pendingCount is not below the number
\* of items accepted and unfinished
C19_Held == \A c \in Conns : pendingSttRequests[c] >= Len(sttQueue[c].chain)

\* what holds of every step for C19 while a call of socket c is in flight
\* and the step is not the settling of that call: no slot of c is freed, no
\* unit of c leaves or moves, and at the ceiling a submission is refused
C19_Steps ==
  \A c \in Conns :
    (InFlight(c) # {} /\ ~(last'.conn = c /\ last'.op \in SettleOps)) =>
      /\ pendingSttRequests'[c] >= pendingSttRequests[c]
      /\ Len(sttQueue'[c].chain) >= Len(sttQueue[c].chain)
      /\ SubSeq(sttQueue'[c].chain, 1, Len(sttQueue[c].chain)) = sttQueue[c].chain
      /\ (Submits(c) /\ pendingSttRequests[c] = MAX_STT_PENDING_REQUESTS) =>
           /\ Len(emitted') = 1
           /\ IsSttError(emitted'[1], "STT_BACKPRESSURE")
           /\ sttQueue'[c] = sttQueue[c]
           /\ pendingSttRequests'[c] = MAX_STT_PENDING_REQUESTS

\* C19: while an external call of a socket stays unsettled its item keeps
\* its slot: pendingCount never drops below the number of accepted unfinished
\* items, nothing but the settling of the call (no passing of time, no event
\* of any socket) frees a slot or moves a unit, and once pendingCount is at
\* the ceiling every further submission is refused with STT_BACKPRESSURE.
C19_SlotHeld == []C19_Held /\ [][C19_Steps]_vars

\* C19 witness: time has passed since the first item's call began, the call
\* is still in flight, the socket is at the ceiling and a submission has just
\* been refused.
C19_Witness ==
  /\ last.op = "audioRecording"
  /\ now > 0
  /\ Len(emitted) = 1
  /\ IsSttError(emitted[1], "STT_BACKPRESSURE")
  /\ InFlight(last.conn) # {}
  /\ sttRateTimestamps[last.conn] = <<0>>
  /\ pendingSttRequests[last.conn] = MAX_STT_PENDING_REQUESTS

RelayPayload(c, op, data) ==
  CASE op = "makeCall" ->
         [callerId |-> user[c],
          sdpOffer |-> Str(Trim(Get(data, "sdpOffer").v))]
    [] op = "answerCall" ->
         [callee |-> user[c],
          sdpAnswer |-> Str(Trim(Get(data, "sdpAnswer").v))]
    [] op = "endCall" -> [from |-> user[c]]
    [] OTHER ->
         [sender |-> user[c], iceCandidate |-> Get(data, "iceCandidate")]

\* what the last signaling event forwards, computed from that event and the
\* identity bindings alone
Forwarded ==
  Relayed(last.conn, SignalTarget(last.op, last.data), RelayEvent(last.op),
          RelayPayload(last.conn, last.op, last.data))

\* the valid payloads of a signaling event
ValidPayloads(op, key1, key2) ==
  {data \in SignalPayload(key1, key2) : ValidSignal(op, data)}

\* C21: a connected socket can send each of the four signaling events with a
\* valid payload in every state, whatever events came before (a call-answer
\* or call-end without a call-offer included); a valid event is forwarded as
\* the relay table says, to the sockets bound to the target identity,
\* whatever the preceding event was; and a signaling event records nothing:
\* it changes no binding, no room and no session state, so it cannot change
\* how a later event is forwarded.
C21_Stateless ==
  /\ [](\A c \in Conns :
          status[c] = "connected" =>
            /\ ENABLED MakeCall(c, ValidPayloads("makeCall", "calleeId", "sdpOffer"))
            /\ ENABLED AnswerCall(c, ValidPayloads("answerCall", "callerId", "sdpAnswer"))
            /\ ENABLED EndCall(c, ValidPayloads("endCall", "calleeId", "unused"))
            /\ ENABLED IceCandidateEvent(c, ValidPayloads("IceCandidate", "calleeId",
                                                          "iceCandidate")))
  /\ [][last'.op \in SignalOps =>
          /\ ValidSignal(last'.op, last'.data) =>
               /\ Len(emitted') >= 1
               /\ emitted'[1] = Forwarded'
               /\ \A k \in DOMAIN emitted' : emitted'[k].event # "signalError"
          /\ UNCHANGED <<status, user, connectError, rooms, sttRateTimestamps,
                         pendingSttRequests, sttQueue, received, now,
                         projectId, env, call>>]_vars

\* C21 witness: a call-answer addressed to an identity another socket is
\* bound to has just been forwarded to that socket; the state holds no trace
\* of a call-offer (the sessions and rooms are as the connections left them).
C21_Witness ==
  /\ last.op = "answerCall"
  /\ ValidSignal(last.op, last.data)
  /\ Len(emitted) = 1
  /\ emitted[1].event = "callAnswered"
  /\ emitted[1].to # {}
  /\ last.conn \notin emitted[1].to

(* ==================== unexpected handler exceptions ==================== *)
\* the last turn emitted exactly one signal-error UNHANDLED_SERVER_ERROR, to
\* the socket whose event is handled
OneUnhandledServerError ==
  /\ Cardinality({k \in DOMAIN emitted :
                    emitted[k].event = "signalError"}) = 1
  /\ \E k \in DOMAIN emitted :
       /\ emitted[k].event = "signalError"
       /\ emitted[k].payload.code = "UNHANDLED_SERVER_ERROR"
       /\ emitted[k].to = {last.conn}

\* C22: an unexpected exception raised while an inbound event is handled is
\* converted into one signal-error UNHANDLED_SERVER_ERROR to the sender and
\* does not escape: here the exception is the TypeError of reading
\* processingError.message when an external call rejected with null, raised
\* in the unit of work of an audio item; the promise chain of the socket is
\* not left rejected, so its later events are handled normally.
C22_Converted ==
  (last.op \in SettleOps /\ last.data = Rejected(Null)) =>
    /\ OneUnhandledServerError
    /\ ~sttQueue[last.conn].rejected

(* ========================= pending-slot accounting ===================== *)
\* the items of socket c that are accepted in this step
Accepted(c) ==
  IF Submits(c) /\ pendingSttRequests[c] < MAX_STT_PENDING_REQUESTS
  THEN {received'} ELSE {}

\* the items of socket c whose unit of work finishes in this step
Finished(c) ==
  (Ids(sttQueue[c]) \cup Accepted(c)) \ Ids(sttQueue'[c])

\* C23: in every state, hence at every backpressure check, pendingCount of a
\* socket is the number of its accepted items whose unit of work has not
\* finished; a step adds one for the item it accepts and takes one off for
\* each item whose unit finishes in it, whatever the exit path; and a unit
\* that has started is the oldest unfinished item, so the slots of all
\* earlier items were released before it started.
C23_PendingExact ==
  /\ [](\A c \in Conns :
          /\ pendingSttRequests[c] = Cardinality(Ids(sttQueue[c]))
          /\ pendingSttRequests[c] = Len(sttQueue[c].chain)
          /\ \A j \in DOMAIN sttQueue[c].chain :
               sttQueue[c].chain[j].phase # "queued" => j = 1)
  /\ [][\A c \in Conns :
          pendingSttRequests'[c] =
            pendingSttRequests[c] + Cardinality(Accepted(c))
              - Cardinality(Finished(c))]_vars

\* C23 witness: a socket held two slots; the call of its first item failed
\* and the second item was rate limited in the same turn: both exits
\* released a slot and pendingCount is 0.
C23_Witness ==
  /\ last.op = "recognizeSettled"
  /\ Len(emitted) = 2
  /\ IsSttError(emitted[1], "STT_PROCESSING_FAILED")
  /\ IsSttError(emitted[2], "STT_RATE_LIMITED")
  /\ emitted[1].item < emitted[2].item
  /\ pendingSttRequests[last.conn] = 0
  /\ sttQueue[last.conn].chain = <<>>

(* ================== the moment of the rate-limit decision ============== *)
\* item i is answered STT_RATE_LIMITED in this step
Limited(i) ==
  \E k \in Answers(emitted', i) : IsSttError(emitted'[k], "STT_RATE_LIMITED")

\* the items of socket c whose turn arrives in this step before that of
\* item j and that pass the rate-limit check: each records the time of the
\* step
PassedBefore(c, j) == {i \in Started(c) : i < j /\ ~Limited(i)}

\* C24: the rate-limit decision of an item is taken when its turn arrives,
\* with the clock and the rateTimestamps of that moment. An item accepted
\* behind an unfinished item gets no decision at its submission: it waits,
\* unanswered, and rateTimestamps is untouched. When its turn arrives, in
\* whatever later step, it is answered STT_RATE_LIMITED exactly if the
\* timestamps that are then less than a window old, those of the items
\* started before it in the same turn included, number at least the ceiling.
C24_DecidedAtTurn ==
  [][\A c \in Conns :
       /\ (Accepted(c) # {} /\ sttQueue[c].chain # <<>>) =>
            /\ received' \in QueuedIds(sttQueue'[c])
            /\ Answers(emitted', received') = {}
            /\ sttRateTimestamps'[c] = sttRateTimestamps[c]
       /\ \A j \in Started(c) :
            Limited(j) <=>
              Cardinality(InWindow(c)) + Cardinality(PassedBefore(c, j))
                >= RATE_LIMIT_MAX_REQUESTS]_vars

\* C24 witness: three items of one socket are answered in the turn in which
\* the call of the first settles. The third was submitted while the second
\* still waited, so the window then held the timestamp of the first item
\* alone and had room; at its turn the second item has just recorded its
\* timestamp (and failed validation), the window is full and the third item
\* is answered STT_RATE_LIMITED.
C24_Witness ==
  /\ last.op \in SettleOps
  /\ RATE_LIMIT_MAX_REQUESTS = 2
  /\ received = 3
  /\ Len(emitted) = 3
  /\ \A k \in 1..3 : emitted[k].item = k /\ emitted[k].from = last.conn
  /\ IsSttError(emitted[2], "STT_INVALID_PAYLOAD")
  /\ IsSttError(emitted[3], "STT_RATE_LIMITED")
  /\ Len(sttRateTimestamps[last.conn]) = 2

\* an item that was submitted at time 0, when the window of its socket was
\* full, behind a call in flight, passes the check at time 2, when its turn
\* arrives in the turn in which that call settles: the other socket took the
\* third item at time 0, so the second item arrived no later
C24_AgedOut ==
  \E c \in Conns : \E d \in Conns \ {c} :
    /\ last.op \in SettleOps /\ last.conn = c
    /\ now = RATE_LIMIT_WINDOW_MS
    /\ RATE_LIMIT_MAX_REQUESTS = 1
    /\ Len(sttQueue[c].chain) = 1
    /\ sttQueue[c].chain[1].id = 2
    /\ sttQueue[c].chain[1].phase = "stt"
    /\ sttRateTimestamps[c] = <<now>>
    /\ Len(sttQueue[d].chain) = 1
    /\ sttQueue[d].chain[1].id = 3
    /\ sttRateTimestamps[d] = <<0>>

(* ============== the request handed to the speech-to-text call ========== *)
LINEAR16 == <<"L", "I", "N", "E", "A", "R", "1", "6">>

FallbackLocale == <<"e", "n", "-", "U", "S">>

\* the encoding field names an encoding of the allow-list, in any case and
\* with any padding
RecognisedEncoding(data) ==
  /\ Get(data, "encoding").t = "string"
  /\ ToUpperCase(Trim(Get(data, "encoding").v)) \in ALLOWED_ENCODINGS

\* the sample-rate field is absent (or zero or empty), or a number within the
\* limits
SampleRateAccepted(data) ==
  LET rate == Get(data, "sampleRateHertz") IN
    \/ ~Truthy(rate)
    \/ /\ ~ToNumber(rate).nan
       /\ ToNumber(rate).n >= MinSampleRate
       /\ ToNumber(rate).n <= MaxSampleRate

\* the request of a unit that awaits client.recognize satisfies the
\* invariants of an Audio Chunk Request
RequestValid(unit) ==
  LET request == unit.parsed
      data == unit.data
  IN /\ Base64DecodedLength(request.audioBase64) >= 1
     /\ Base64DecodedLength(request.audioBase64) <= MAX_AUDIO_BYTES
     /\ request.encoding \in ALLOWED_ENCODINGS
     /\ request.encoding = IF RecognisedEncoding(data)
                           THEN ToUpperCase(Trim(Get(data, "encoding").v))
                           ELSE LINEAR16
     /\ request.sampleRateHertz >= MinSampleRate
     /\ request.sampleRateHertz <= MaxSampleRate
     /\ isValidLanguageCode(Str(request.sourceLanguageCode))
     /\ request.sourceLanguageCode =
          IF isValidLanguageCode(Get(data, "language"))
          THEN Trim(Get(data, "language").v)
          ELSE FallbackLocale

\* C25: every request handed to client.recognize has decoded audio of 1 to
\* MAX_AUDIO_BYTES bytes, an encoding of the allow-list (LINEAR16 when the
\* field is absent or unrecognised), a sample rate within [8000, 48000] and a
\* syntactically valid source language (the fallback locale when the field is
\* absent or invalid); and an item is never rejected for its encoding or its
\* language: when its turn arrives with room in the window, its recipient and
\* audio are valid and its sample rate is accepted, it is handed to
\* client.recognize unanswered, whatever its encoding and language fields.
C25_RequestInvariants ==
  /\ [](\A c \in Conns : \A j \in DOMAIN sttQueue[c].chain :
          sttQueue[c].chain[j].phase = "stt" =>
            RequestValid(sttQueue[c].chain[j]))
  /\ [][\A c \in Conns :
          (Started(c) # {}
             /\ Cardinality(InWindow(c)) < RATE_LIMIT_MAX_REQUESTS
             /\ ~InvalidAudioPayload(ItemData(c, FirstStarted(c)))
             /\ SampleRateAccepted(ItemData(c, FirstStarted(c)))) =>
            /\ Answers(emitted', FirstStarted(c)) = {}
            /\ sttQueue'[c].chain # <<>>
            /\ Head(sttQueue'[c].chain).id = FirstStarted(c)
            /\ Head(sttQueue'[c].chain).phase = "stt"]_vars

\* C25 witness: a chunk that names the encoding MP3 and no language is with
\* client.recognize as LINEAR16 in en-US at 16000 Hz.
C25_Witness ==
  \E c \in Conns :
    /\ sttQueue[c].chain # <<>>
    /\ Head(sttQueue[c].chain).phase = "stt"
    /\ Get(Head(sttQueue[c].chain).data, "encoding") = Str(<<"M", "P", "3">>)
    /\ Get(Head(sttQueue[c].chain).data, "language") = Undef
    /\ Head(sttQueue[c].chain).parsed.encoding = LINEAR16
    /\ Head(sttQueue[c].chain).parsed.sourceLanguageCode = FallbackLocale
    /\ Head(sttQueue[c].chain).parsed.sampleRateHertz = DefaultSampleRate

(* ========================= sample-rate defaulting ====================== *)
\* C26: an item whose sample-rate field is absent or not within [8000, 48000]
\* is processed with the default 16000 rather than rejected: when its turn
\* arrives with room in the window and its recipient and audio are valid, it
\* is handed to client.recognize, unanswered, at 16000 Hz.
C26_DefaultSampleRate ==
  [][\A c \in Conns :
       (Started(c) # {}
          /\ Cardinality(InWindow(c)) < RATE_LIMIT_MAX_REQUESTS
          /\ ~InvalidAudioPayload(ItemData(c, FirstStarted(c)))
          /\ LET rate == Get(ItemData(c, FirstStarted(c)), "sampleRateHertz")
             IN \/ rate.t = "undefined"
                \/ ToNumber(rate).nan
                \/ ToNumber(rate).n < MinSampleRate
                \/ ToNumber(rate).n > MaxSampleRate) =>
         /\ Answers(emitted', FirstStarted(c)) = {}
         /\ sttQueue'[c].chain # <<>>
         /\ Head(sttQueue'[c].chain).id = FirstStarted(c)
         /\ Head(sttQueue'[c].chain).phase = "stt"
         /\ Head(sttQueue'[c].chain).parsed.sampleRateHertz
              = DefaultSampleRate]_vars

\* an item without a sample-rate field, or with the field 0, is with
\* client.recognize at 16000 Hz
C26_AbsentDefaults ==
  \A c \in Conns : \A j \in DOMAIN sttQueue[c].chain :
    (sttQueue[c].chain[j].phase = "stt"
       /\ ~Truthy(Get(sttQueue[c].chain[j].data, "sampleRateHertz"))) =>
      sttQueue[c].chain[j].parsed.sampleRateHertz = DefaultSampleRate

(* ======================= coarse language forms ========================= *)
\* the part of a language code before its first "-"
PrimarySubtag(code) ==
  IF \E k \in DOMAIN code : code[k] = "-"
  THEN SubSeq(code, 1,
              (CHOOSE k \in DOMAIN code :
                 code[k] = "-" /\ \A j \in 1..(k - 1) : code[j] # "-") - 1)
  ELSE code

\* the units of socket c that have been validated
Validated(c) ==
  {j \in DOMAIN sttQueue[c].chain : sttQueue[c].chain[j].phase # "queued"}

\* the source language given to the translation decision and to
\* translateText for a validated unit
CoarseSource(unit) ==
  normalizeTranslationLanguageCode(Str(unit.parsed.sourceLanguageCode))

ExpectedCoarseForm(languageCode) ==
  IF languageCode.t \in {"undefined", "null"} \/ languageCode = Str(<<>>)
  THEN <<"e", "n">>
  ELSE LET code == ToLowerCase(Trim(languageCode.v)) IN
         IF Len(code) >= 2 /\ SubSeq(code, 1, 2) = <<"m", "y">>
         THEN <<"m", "y">>
         ELSE IF Len(code) >= 2 /\ SubSeq(code, 1, 2) = <<"e", "n">>
         THEN <<"e", "n">>
         ELSE PrimarySubtag(code)

\* C28: normalizeTranslationLanguageCode returns "en" for an absent or empty
\* argument, "my" for a code that starts with "my" and "en" for a code that
\* starts with "en", in any case and after trimming, and for every other code
\* the part before its first "-", in lower case and trimmed.
C28_Normalize ==
  (call.fn = "normalizeTranslationLanguageCode" /\ call.returned) =>
    call.value = Str(ExpectedCoarseForm(call.argument))

\* C28 witness: the call with " JA-JP" has returned "ja".
C28_Witness ==
  /\ call.fn = "normalizeTranslationLanguageCode"
  /\ call.returned
  /\ call.argument = Str(<<" ", "J", "A", "-", "J", "P">>)
  /\ call.value = Str(<<"j", "a">>)

(* ==================== the work queue after a failure =================== *)
\* C29: whatever the outcomes of the earlier items of a socket were, an item
\* accepted on it while no item is unfinished has its turn at once: after
\* the turn it is with client.recognize or it has been answered (rate
\* limited or invalid); it is never dropped unanswered with its slot released.
C29_QueueSurvives ==
  [][\A c \in Conns :
       (Accepted(c) # {} /\ sttQueue[c].chain = <<>>) =>
         \/ received' \in Ids(sttQueue'[c])
         \/ Answers(emitted', received') # {}]_vars

\* the same holds on every socket whose promise chain is not rejected
C29_UnlessRejected ==
  [][\A c \in Conns :
       (Accepted(c) # {} /\ sttQueue[c].chain = <<>> /\ ~sttQueue[c].rejected) =>
         \/ received' \in Ids(sttQueue'[c])
         \/ Answers(emitted', received') # {}]_vars

\* a rejection that carries an Error leaves the promise chain fulfilled
C29_ErrorsHandled ==
  [][\A c \in Conns :
       (last'.conn = c /\ last'.op \in SettleOps
          /\ last'.data = Rejected(ErrorObject)) =>
         ~sttQueue'[c].rejected]_vars

(* ================ items behind a call that never settles =============== *)
\* C30: while an external call of a socket is in flight, every step other
\* than the settling of that call leaves every item queued behind it as it
\* is: the item stays queued, not started (no rate-limit check touches
\* rateTimestamps, no validation, no external call), no stt-result or
\* stt-error answers it, and the slots of the socket are all held; an item
\* accepted in such a step joins the queued items. Hence, when the call never
\* settles, the items behind it never begin and hold their slots for ever.
C30_BlockedBehind ==
  [][\A c \in Conns :
       (InFlight(c) # {} /\ ~(last'.conn = c /\ last'.op \in SettleOps)) =>
         /\ InFlight(c)' = InFlight(c)
         /\ \A i \in QueuedIds(sttQueue[c]) \cup Accepted(c) :
              /\ i \in QueuedIds(sttQueue'[c])
              /\ Answers(emitted', i) = {}
         /\ sttRateTimestamps'[c] = sttRateTimestamps[c]
         /\ pendingSttRequests'[c] = Len(sttQueue'[c].chain)
         /\ pendingSttRequests'[c] >= pendingSttRequests[c]]_vars

\* C30 witness: the clock has reached its last value while the first call of
\* a socket is still in flight; the two items behind it are queued, unstarted
\* (the only timestamp is that of the first item, at time 0), and the socket
\* holds three slots.
C30_Witness ==
  \E c \in Conns :
    /\ last.op = "tick"
    /\ now = MaxTime
    /\ Len(sttQueue[c].chain) = 3
    /\ sttQueue[c].chain[1].phase \in {"stt", "translate"}
    /\ sttQueue[c].chain[2].phase = "queued"
    /\ sttQueue[c].chain[3].phase = "queued"
    /\ sttRateTimestamps[c] = <<0>>
    /\ pendingSttRequests[c] = Len(sttQueue[c].chain)

(* ===================== the bound of the rate window ==================== *)
\* the items of socket c that pass the rate-limit check in this step
Passed(c) == {i \in Started(c) : ~Limited(i)}

\* the number of entries of a list of timestamps that equal time
CountAt(timestamps, time) ==
  Cardinality({k \in DOMAIN timestamps : timestamps[k] = time})

\* C31: rateTimestamps of a socket never holds more than the ceiling of
\* entries, none of them in the future. Every item that passes the check
\* records the time of its turn, and an entry is dropped only once it is a
\* window old, so the entries less than a window old are the items that
\* passed within the window: at every instant they number at most the
\* ceiling, the passes of the current turn included, and only items that
\* passed are handed to client.recognize.
C31_WindowBounded ==
  /\ [](\A c \in Conns :
          /\ Len(sttRateTimestamps[c]) <= RATE_LIMIT_MAX_REQUESTS
          /\ Cardinality(InWindow(c)) <= RATE_LIMIT_MAX_REQUESTS
          /\ \A k \in DOMAIN sttRateTimestamps[c] :
               sttRateTimestamps[c][k] <= now)
  /\ [][\A c \in Conns :
          /\ Cardinality(InWindow(c)) + Cardinality(Passed(c))
               <= RATE_LIMIT_MAX_REQUESTS
          /\ CountAt(sttRateTimestamps'[c], now)
               = CountAt(sttRateTimestamps[c], now) + Cardinality(Passed(c))
          /\ \A time \in 0..MaxTime :
               (time # now /\ now - time < RATE_LIMIT_WINDOW_MS) =>
                 CountAt(sttRateTimestamps'[c], time)
                   = CountAt(sttRateTimestamps[c], time)
          /\ \A j \in InFlight(c)' :
               sttQueue'[c].chain[j].phase = "stt" =>
                 \/ j \in InFlight(c)
                      /\ sttQueue[c].chain[j].id = sttQueue'[c].chain[j].id
                 \/ sttQueue'[c].chain[j].id \in Passed(c)]_vars

\* C31 witness: two items of a socket passed the check at times 0 and 1, the
\* window holds as many entries as the ceiling, and a third item has just
\* been answered STT_RATE_LIMITED at time 1.
C31_Witness ==
  /\ last.op = "audioRecording"
  /\ now = 1
  /\ sttRateTimestamps[last.conn] = <<0, 1>>
  /\ Len(sttRateTimestamps[last.conn]) = RATE_LIMIT_MAX_REQUESTS
  /\ Len(emitted) = 1
  /\ IsSttError(emitted[1], "STT_RATE_LIMITED")

(* ================= what consumes a unit of the rate window ============= *)
\* the items of socket c answered STT_INVALID_PAYLOAD in this step
Invalidated(c) ==
  {i \in Started(c) :
     \E k \in Answers(emitted', i) :
       IsSttError(emitted'[k], "STT_INVALID_PAYLOAD")}

\* C32: the timestamp of an item is recorded when it passes the rate-limit
\* check, before its payload is validated: every item whose turn arrives and
\* that is not answered STT_RATE_LIMITED adds one entry with the time of the
\* turn, the items answered STT_INVALID_PAYLOAD included; an item refused
\* with STT_BACKPRESSURE leaves rateTimestamps untouched, an item answered
\* STT_RATE_LIMITED adds no entry, and the settling of a call (silence,
\* result or STT_PROCESSING_FAILED) gives no entry back.
C32_ConsumedBeforeValidation ==
  [][\A c \in Conns :
       /\ \A i \in Invalidated(c) : ~Limited(i)
       /\ CountAt(sttRateTimestamps'[c], now)
            = CountAt(sttRateTimestamps[c], now)
                + Cardinality({i \in Started(c) : ~Limited(i)})
       /\ (Submits(c) /\ pendingSttRequests[c] >= MAX_STT_PENDING_REQUESTS) =>
            sttRateTimestamps'[c] = sttRateTimestamps[c]
       /\ Started(c) = {} => sttRateTimestamps'[c] = sttRateTimestamps[c]
       /\ (Started(c) # {} /\ \A i \in Started(c) : Limited(i)) =>
            sttRateTimestamps'[c] = Recent(sttRateTimestamps[c], now)
       /\ (last'.conn = c /\ last'.op \in SettleOps) =>
            \A k \in InWindow(c) :
              CountAt(sttRateTimestamps'[c], sttRateTimestamps[c][k])
                >= CountAt(sttRateTimestamps[c], sttRateTimestamps[c][k])]_vars

\* C32 witness: the first item the server received has just been answered
\* STT_INVALID_PAYLOAD and its timestamp is recorded.
C32_Witness ==
  /\ last.op = "audioRecording"
  /\ received = 1
  /\ Len(emitted) = 1
  /\ IsSttError(emitted[1], "STT_INVALID_PAYLOAD")
  /\ sttRateTimestamps[last.conn] = <<now>>
  /\ sttQueue[last.conn].chain = <<>>

(* ====================== one outcome per submission ===================== *)
\* the event is an outcome an accepted item can end with
AcceptedOutcome(e) ==
  \/ e.event = "sttResult"
  \/ IsSttError(e, "STT_RATE_LIMITED")
  \/ IsSttError(e, "STT_INVALID_PAYLOAD")
  \/ IsSttError(e, "STT_PROCESSING_FAILED")

\* C33: an item refused at submission is answered by exactly one
\* STT_BACKPRESSURE and the turn emits nothing else; an accepted item is
\* answered only in the turn in which its unit of work finishes, by at most
\* one event, which is an stt-result or one of STT_RATE_LIMITED,
\* STT_INVALID_PAYLOAD and STT_PROCESSING_FAILED; an item that is still
\* queued or in flight has no event, and a finished item never returns to
\* the queue, so no item ever has two events.
C33_OneOutcome ==
  [][\A c \in Conns :
       /\ (Submits(c) /\ pendingSttRequests[c] >= MAX_STT_PENDING_REQUESTS) =>
            /\ Len(emitted') = 1
            /\ IsSttError(emitted'[1], "STT_BACKPRESSURE")
            /\ emitted'[1].item = received'
       /\ \A i \in Finished(c) :
            /\ Cardinality(Answers(emitted', i)) <= 1
            /\ \A k \in Answers(emitted', i) :
                 AcceptedOutcome(emitted'[k]) /\ emitted'[k].from = c
       /\ \A i \in Ids(sttQueue'[c]) : Answers(emitted', i) = {}
       /\ Ids(sttQueue'[c]) \subseteq Ids(sttQueue[c]) \cup Accepted(c)
       /\ \A k \in DOMAIN emitted' :
            (emitted'[k].from = c /\ emitted'[k].item # 0) =>
              \/ emitted'[k].item \in Finished(c)
              \/ /\ emitted'[k].item = received'
                 /\ Submits(c)
                 /\ IsSttError(emitted'[k], "STT_BACKPRESSURE")]_vars

\* C33 witness: an item that went through both external calls has just
\* finished with one stt-result and nothing else.
C33_Witness ==
  /\ last.op = "translateSettled"
  /\ Len(emitted) = 1
  /\ emitted[1].event = "sttResult"
  /\ emitted[1].item # 0
  /\ emitted[1].from = last.conn
  /\ sttQueue[last.conn].chain = <<>>

(* ======================= the originator of a relay ===================== *)
RelayedEvents ==
  {"newCall", "callAnswered", "callEnded", "IceCandidate", "sttResult"}

\* the originator field of a relayed event
Originator(e) ==
  CASE e.event = "newCall" -> e.payload.callerId
    [] e.event = "callAnswered" -> e.payload.callee
    [] e.event = "callEnded" -> e.payload.from
    [] e.event = "IceCandidate" -> e.payload.sender
    [] OTHER -> e.payload.from

\* C34: the originator field of every relayed event (newCall.callerId,
\* callAnswered.callee, callEnded.from, IceCandidate.sender, sttResult.from)
\* is the identity bound to the socket whose event caused it, also when the
\* payload of that event names another originator; and the identity of a
\* connected socket never changes, nor does the socket leave its room.
C34_Originator ==
  /\ [](\A k \in DOMAIN emitted :
          emitted[k].event \in RelayedEvents =>
            /\ emitted[k].from = last.conn
            /\ status[last.conn] = "connected"
            /\ Originator(emitted[k]) = user[last.conn]
            /\ Present(user[last.conn]))
  /\ [][\A c \in Conns :
          status[c] = "connected" =>
            /\ status'[c] = "connected"
            /\ user'[c] = user[c]
            /\ RoomsOf(c)' = RoomsOf(c)]_vars

\* C34 witness: a call-offer whose payload claims the caller Z has just been
\* relayed to a peer with the sender's bound identity as callerId.
C34_Witness ==
  /\ last.op = "makeCall"
  /\ Get(last.data, "callerId") = Str(<<"Z">>)
  /\ Len(emitted) = 1
  /\ emitted[1].event = "newCall"
  /\ emitted[1].to # {}
  /\ emitted[1].payload.callerId = user[last.conn]
  /\ user[last.conn] # Str(<<"Z">>)

\* the same for speech: an stt-result of a chunk that claims to be from Z
\* carries the sender's bound identity
C34_ResultWitness ==
  \E k \in DOMAIN emitted :
    /\ emitted[k].event = "sttResult"
    /\ emitted[k].to # {}
    /\ emitted[k].payload.from = user[last.conn]
    /\ user[last.conn] # Str(<<"Z">>)

(* ========================= delivery of a relay ========================= *)
\* the connected sockets bound to an identity
BoundTo(identity) ==
  {d \in Conns : status[d] = "connected" /\ user[d] = identity}

\* C35: a relayed event (newCall, callAnswered, callEnded, IceCandidate,
\* sttResult) addressed to an identity is delivered to every connected socket
\* bound to that identity except the socket that sent it: the sender never
\* receives its own relayed event, also when it targets its own identity,
\* while the other sockets sharing the identity do. For the signaling events
\* the identity addressed is the trimmed target field of the payload.
C35_Delivery ==
  \A k \in DOMAIN emitted :
    LET e == emitted[k] IN
      e.event \in RelayedEvents =>
        /\ e.to = BoundTo(e.room) \ {e.from}
        /\ e.from \notin e.to
        /\ last.op \in SignalOps =>
             e.room = Str(Trim(SignalTarget(last.op, last.data).v))

\* C35 witness: two sockets are bound to one identity, one of them has sent
\* a call-offer to that identity, and the new-call went to the other only.
C35_Witness ==
  /\ last.op = "makeCall"
  /\ Len(emitted) = 1
  /\ emitted[1].event = "newCall"
  /\ emitted[1].room = user[last.conn]
  /\ BoundTo(user[last.conn]) = Conns
  /\ emitted[1].to = Conns \ {last.conn}
  /\ emitted[1].to # {}

\* the same for speech: the stt-result of a chunk addressed to the sender's
\* own identity went to the other socket bound to it
C35_ResultWitness ==
  \E k \in DOMAIN emitted :
    /\ emitted[k].event = "sttResult"
    /\ emitted[k].room = user[emitted[k].from]
    /\ emitted[k].to = Conns \ {emitted[k].from}
    /\ emitted[k].to # {}

\* a sender alone on its identity targets itself: nobody receives the relay
C35_AloneWitness ==
  /\ last.op \in SignalOps
  /\ Len(emitted) >= 1
  /\ emitted[1].event \in RelayedEvents
  /\ emitted[1].room = user[last.conn]
  /\ emitted[1].to = {}

=============================================================================
